---- MODULE Spec2Model ----
(***************************************************************************)
(* State-machine model of the qsafevault signaling relay:                  *)
(*   - the chunk relay and acknowledgment of sessionManager.js,            *)
(*   - the signal mailbox of sessionManager.js,                            *)
(*   - the envelope-session store of api/_lib/store.js with its resolve    *)
(*     and answer handlers.                                                *)
(* Every handler is an async function: it runs atomically between two      *)
(* awaits, and each awaited storage operation (readStorage, writeStorage,  *)
(* deleteStorage, kvGet, kvSet, kvDel, kvTtl, kvExpire) takes effect at    *)
(* one instant.  An action of the model is one storage operation taking    *)
(* effect together with the synchronous code that follows it up to the     *)
(* point where the next storage operation is issued.  Values read from     *)
(* storage are copies (JSON through the blob store), so a handler works on *)
(* the snapshot it read.                                                   *)
(***************************************************************************)
EXTENDS Integers, Sequences, FiniteSets, TLC

VARIABLES
    now,        \* the clock, Date.now(), in milliseconds
    sessRec,    \* the stored relay session of the key (sess/<hash>), or Null
    ackRec,     \* the stored acknowledgment record (ack/<hash>), or Null
    pc,         \* per handler instance: where it is suspended
    arg,        \* per handler instance: the arguments of the call in flight
    loc,        \* per handler instance: the session snapshot it works on
    ret,        \* per handler instance: what its last call returned
    ops,        \* number of calls started so far
    sigRec,     \* the stored signal mailbox of the peer (signal/<hash>), or Null
    kvSess,     \* the envelope session entry of the key-value store, or Null
    kvPin,      \* the PIN entry of the key-value store, or Null
    peerRec,    \* the stored registration of the invite code (peer/<hash>), or Null
    uniRec,     \* the session of the invite code in the unidirectional relay, or Null
    blobs,      \* the relay sessions of several (inviteCode, passwordHash) pairs, by key
    memSt,      \* the session maps of the in-memory session store (byId, byPinHash)
    setAckSince, \* history: a setAck wrote the ack record since its last destruction
    trace       \* history: the results returned so far, in order, when recorded

vars == <<now, sessRec, ackRec, sigRec, kvSess, kvPin, peerRec, uniRec, blobs, memSt,
          pc, arg, loc, ret, ops, setAckSince, trace>>

----------------------------------------------------------------------------
(* Bounds of the model *)

NProc == 2          \* handler instances that may be in flight together
MaxOps == 3         \* calls started in one behaviour (racing pushers)
MaxOpsSeq == 5      \* calls started in one behaviour (one client, call after call)
SoloOps == 4        \* calls the first client starts before a second one joins
MaxChunks == 3      \* largest transfer of the round trip
SigOps == 4         \* mailbox calls started in one behaviour
SigTickMs == 20000  \* clock step of the mailbox specification
EnvOps == 5         \* envelope calls started in one behaviour
EnvSolo == 3        \* envelope calls started before a second client joins
EnvTickMs == 500    \* clock step of the envelope specification
MaxEnvTicks == 2    \* how often the clock advances there
MaxTotal == 2       \* largest totalChunks an input carries
MaxTicks == 2       \* how often the clock advances
TickMs == 40000     \* by how much the clock advances at once
PeerOps == 4        \* registration calls started in one behaviour
SessOps == 5        \* requests one client makes on an envelope session
InputOps == 4       \* calls one client makes with requests of every shape
PeerTickMs == 15000 \* clock step of the registration specification
MaxPeerTicks == 3   \* how often the clock advances there
AckedOps == 6       \* calls one client makes on a transfer it acknowledges
UniOps == 4         \* calls one client makes on the unidirectional relay
UniTickMs == 16000  \* clock step of the unidirectional relay specification
MaxUniTicks == 4    \* how often the clock advances there
PairOps == 3        \* calls one client makes on the sessions of several pairs
CrashOps == 5       \* calls one client makes when a call may stop half way
DuplexOps == 5      \* calls a sender and a receiver start between them
MemOps == 4         \* calls made on the in-memory session store
MemTickMs == 90000  \* clock step of the in-memory session store specification
MaxMemTicks == 2    \* how often the clock advances there

(* Program constants *)

CHUNK_TTL_MS == 60000
SIGNAL_TTL_MS == 30000
MAX_TOTAL_CHUNKS == 2048
MAX_DATA_LEN == 49152
SESS_TTL_SEC == 180
USER_INPUT_TIME_MS == 30000
CHUNK_TTL_PER_CHUNK_MS == 500
MAX_CHUNK_TTL_MS == 180000
GEN_PIN_TRIES == 5

Procs == 1..NProc
Data == {"A", "B"}
Null == [null |-> TRUE]
NoRet == [op |-> "none"]

----------------------------------------------------------------------------
(* Storage operations *)

\* readStorage: the stored record, or null when absent or expired
ReadStorage(rec, t) ==
    IF rec = Null THEN Null
    ELSE IF rec.expires < t THEN Null
    ELSE rec

\* a read that leaves the expired record in the store
AfterReadKeeps(rec, t) == rec

\* what readStorage leaves in the store: an expired record is deleted
AfterRead(rec, t) ==
    IF rec # Null /\ rec.expires < t THEN Null ELSE rec

\* purgeExpired leaves a record unless it has expired
AfterPurge(rec, cutoff) ==
    IF rec # Null /\ rec.expires < cutoff THEN Null ELSE rec

----------------------------------------------------------------------------
(* pushChunk *)

PushValid(idx, total) ==
    /\ idx >= 0
    /\ idx < total
    /\ total >= 1
    /\ total <= MAX_TOTAL_CHUNKS

NewSession(total, t) ==
    [created |-> t, lastTouched |-> t, expires |-> t + CHUNK_TTL_MS,
     totalChunks |-> total, chunks |-> <<>>, delivered |-> <<>>,
     completed |-> FALSE, acknowledged |-> FALSE]

Delivered(s) == {s.delivered[k] : k \in 1..Len(s.delivered)}

\* a duplicate check that forgets the chunks already handed out
IsDuplicateStoredOnly(s, idx) ==
    idx \in DOMAIN s.chunks

IsDuplicate(s, idx) ==
    idx \in Delivered(s) \/ idx \in DOMAIN s.chunks

\* a pushChunk that does not look for the index in the session
PushErrorNoDuplicate(s, idx, total) ==
    IF s = Null THEN "none"
    ELSE IF s.totalChunks # total THEN "totalChunks_mismatch"
    ELSE "none"

\* the error pushChunk returns for the session it read, or "none"
PushError(s, idx, total) ==
    IF s = Null THEN "none"
    ELSE IF s.totalChunks # total THEN "totalChunks_mismatch"
    ELSE IF IsDuplicate(s, idx) THEN "duplicate_chunk"
    ELSE "none"

PutChunk(chunks, idx, d) ==
    [i \in (DOMAIN chunks) \cup {idx} |-> IF i = idx THEN d ELSE chunks[i]]

\* the session pushChunk writes back
PushStore(s, idx, total, d, t) ==
    LET base == IF s = Null THEN NewSession(total, t) ELSE s
    IN [base EXCEPT !.chunks = PutChunk(base.chunks, idx, d),
                    !.lastTouched = t,
                    !.expires = t + CHUNK_TTL_MS]

PushRet(a, err) ==
    [op |-> "push", status |-> "waiting", error |-> err,
     idx |-> a.idx, total |-> a.total, data |-> a.data]

Return(p, r) ==
    /\ ret' = [ret EXCEPT ![p] = r]
    /\ trace' = IF trace.on THEN [trace EXCEPT !.log = Append(@, r)] ELSE trace
    /\ pc' = [pc EXCEPT ![p] = "idle"]
    /\ loc' = [loc EXCEPT ![p] = Null]
    /\ arg' = [arg EXCEPT ![p] = Null]

\* the call with malformed input returns at once
PushInvalid(p, idx, total, d, budget) ==
    /\ pc[p] = "idle"
    /\ ops < budget
    /\ ~PushValid(idx, total)
    /\ Return(p, PushRet([idx |-> idx, total |-> total, data |-> d], "invalid_chunk"))
    /\ ops' = ops + 1
    /\ UNCHANGED <<now, sessRec, ackRec, setAckSince, sigRec, kvSess, kvPin, peerRec,
                   uniRec, blobs, memSt>>

\* await readStorage(key); the session read rejects the chunk
PushReject(p, idx, total, d, budget) ==
    /\ pc[p] = "idle"
    /\ ops < budget
    /\ PushValid(idx, total)
    /\ PushError(ReadStorage(sessRec, now), idx, total) # "none"
    /\ sessRec' = AfterRead(sessRec, now)
    /\ Return(p, PushRet([idx |-> idx, total |-> total, data |-> d],
                         PushError(ReadStorage(sessRec, now), idx, total)))
    /\ ops' = ops + 1
    /\ UNCHANGED <<now, ackRec, setAckSince, sigRec, kvSess, kvPin, peerRec,
                   uniRec, blobs, memSt>>

\* await readStorage(key); the chunk is accepted
PushRead(p, idx, total, d, budget) ==
    /\ pc[p] = "idle"
    /\ ops < budget
    /\ PushValid(idx, total)
    /\ PushError(ReadStorage(sessRec, now), idx, total) = "none"
    /\ loc' = [loc EXCEPT ![p] = ReadStorage(sessRec, now)]
    /\ sessRec' = AfterRead(sessRec, now)
    /\ arg' = [arg EXCEPT ![p] = [idx |-> idx, total |-> total, data |-> d]]
    /\ pc' = [pc EXCEPT ![p] = "push_write"]
    /\ ops' = ops + 1
    /\ UNCHANGED <<now, ackRec, ret, setAckSince, trace, sigRec, kvSess, kvPin, peerRec,
                   uniRec, blobs, memSt>>

\* await writeStorage(key, sess), then the return
PushWrite(p) ==
    /\ pc[p] = "push_write"
    /\ sessRec' = PushStore(loc[p], arg[p].idx, arg[p].total, arg[p].data, now)
    /\ Return(p, PushRet(arg[p], "none"))
    /\ UNCHANGED <<now, ackRec, ops, setAckSince, sigRec, kvSess, kvPin, peerRec,
                   uniRec, blobs, memSt>>

----------------------------------------------------------------------------
(* pushChunk: the check of the request fields *)

\* a field of a request: its JavaScript type and its value (for the data,
\* its text and its length)
Str(v) == [type |-> "string", val |-> v]
Num(v) == [type |-> "number", val |-> v]
Text(d, n) == [type |-> "string", val |-> d, len |-> n]
Missing == [type |-> "object", val |-> 0, len |-> 0]

\* a check that does not look at the length of the data
PushChunkValidAnyLength(in) ==
    /\ in.pin.type = "string"
    /\ in.passwordHash.type = "string"
    /\ in.chunkIndex.type = "number"
    /\ in.totalChunks.type = "number"
    /\ in.data.type = "string"
    /\ PushValid(in.chunkIndex.val, in.totalChunks.val)

\* the condition under which pushChunk goes on to the store
PushChunkValid(in) ==
    /\ in.pin.type = "string"
    /\ in.passwordHash.type = "string"
    /\ in.chunkIndex.type = "number"
    /\ in.totalChunks.type = "number"
    /\ in.data.type = "string"
    /\ PushValid(in.chunkIndex.val, in.totalChunks.val)
    /\ in.data.len <= MAX_DATA_LEN

\* a request that fails the check returns invalid_chunk at once
PushChunkInvalid(p, in, budget) ==
    /\ pc[p] = "idle"
    /\ ops < budget
    /\ ~PushChunkValid(in)
    /\ Return(p, [op |-> "push", status |-> "waiting", error |-> "invalid_chunk",
                  idx |-> in.chunkIndex, total |-> in.totalChunks, data |-> in.data])
    /\ ops' = ops + 1
    /\ UNCHANGED <<now, sessRec, ackRec, setAckSince, sigRec, kvSess, kvPin, peerRec,
                   uniRec, blobs, memSt>>

\* a request that passes it goes on to readStorage
PushChunkChecked(p, in, budget) ==
    /\ PushChunkValid(in)
    /\ \/ PushReject(p, in.chunkIndex.val, in.totalChunks.val, in.data.val, budget)
       \/ PushRead(p, in.chunkIndex.val, in.totalChunks.val, in.data.val, budget)

----------------------------------------------------------------------------
(* nextChunk *)

Pending(s, i) == i \in DOMAIN s.chunks /\ i \notin Delivered(s)

RECURSIVE ScanFrom(_, _)
ScanFrom(s, i) ==
    IF i >= s.totalChunks THEN -1
    ELSE IF Pending(s, i) THEN i
    ELSE ScanFrom(s, i + 1)

\* a delivery loop that runs from the highest index down
FirstPendingDown(s) ==
    IF \E i \in 0..(s.totalChunks - 1) : Pending(s, i)
    THEN CHOOSE i \in 0..(s.totalChunks - 1) :
             /\ Pending(s, i)
             /\ \A j \in (i + 1)..(s.totalChunks - 1) : ~Pending(s, j)
    ELSE -1

\* the index the delivery loop stops at, or -1 when it runs to the end
FirstPending(s) == ScanFrom(s, 0)

DropChunk(chunks, idx) == [i \in (DOMAIN chunks) \ {idx} |-> chunks[i]]

\* a nextChunk that forgets to record the index it hands out
NextDeliverUnrecorded(s, i, t) ==
    [s EXCEPT !.chunks = DropChunk(s.chunks, i),
              !.lastTouched = t,
              !.expires = t + CHUNK_TTL_MS]

\* the session nextChunk writes back when it hands out chunk i
NextDeliver(s, i, t) ==
    [s EXCEPT !.chunks = DropChunk(s.chunks, i),
              !.delivered = Append(s.delivered, i),
              !.lastTouched = t,
              !.expires = t + CHUNK_TTL_MS]

\* the session nextChunk writes back on the completion transition
NextComplete(s) == [s EXCEPT !.completed = TRUE, !.chunks = <<>>]

IsStale(s, t) == t - s.lastTouched > CHUNK_TTL_MS

\* a completion test that is content with nothing pending
AllDeliveredNonePending(s) == TRUE

AllDelivered(s) == Len(s.delivered) = s.totalChunks

NextRet(status, idx, total, d) ==
    [op |-> "next", status |-> status, idx |-> idx, total |-> total, data |-> d]

PlainRet(status) == NextRet(status, -1, -1, "none")

AckPositive(ack) == ack # Null /\ ack.acknowledged

\* a nextChunk that leaves a session behind for a key that had none
NextAbsentLeavesSession(p, budget) ==
    /\ pc[p] = "idle"
    /\ ops < budget
    /\ ReadStorage(sessRec, now) = Null
    /\ sessRec' = NewSession(1, now)
    /\ Return(p, PlainRet("waiting"))
    /\ ops' = ops + 1
    /\ UNCHANGED <<now, ackRec, setAckSince, sigRec, kvSess, kvPin, peerRec,
                   uniRec, blobs, memSt>>

\* await readStorage(key); no session: expired
NextAbsent(p, budget) ==
    /\ pc[p] = "idle"
    /\ ops < budget
    /\ ReadStorage(sessRec, now) = Null
    /\ sessRec' = AfterRead(sessRec, now)
    /\ Return(p, PlainRet("expired"))
    /\ ops' = ops + 1
    /\ UNCHANGED <<now, ackRec, setAckSince, sigRec, kvSess, kvPin, peerRec,
                   uniRec, blobs, memSt>>

\* await readStorage(key); a session is there
NextRead(p, budget) ==
    /\ pc[p] = "idle"
    /\ ops < budget
    /\ ReadStorage(sessRec, now) # Null
    /\ loc' = [loc EXCEPT ![p] = ReadStorage(sessRec, now)]
    /\ pc' = [pc EXCEPT ![p] = "next_chk"]
    /\ ops' = ops + 1
    /\ UNCHANGED <<now, sessRec, ackRec, arg, ret, setAckSince, trace,
                   sigRec, kvSess, kvPin, peerRec,
                   uniRec, blobs, memSt>>

\* lastTouched too old: await deleteStorage(key), expired
NextStale(p) ==
    /\ pc[p] = "next_chk"
    /\ IsStale(loc[p], now)
    /\ sessRec' = Null
    /\ Return(p, PlainRet("expired"))
    /\ UNCHANGED <<now, ackRec, ops, setAckSince, sigRec, kvSess, kvPin, peerRec,
                   uniRec, blobs, memSt>>

\* already completed: await readStorage(ackKey); not acknowledged: done
NextDoneAgain(p) ==
    /\ pc[p] = "next_chk"
    /\ ~IsStale(loc[p], now)
    /\ loc[p].completed
    /\ ~AckPositive(ReadStorage(ackRec, now))
    /\ ackRec' = AfterRead(ackRec, now)
    /\ setAckSince' = (setAckSince /\ ackRec' # Null)
    /\ Return(p, PlainRet("done"))
    /\ UNCHANGED <<now, sessRec, ops, sigRec, kvSess, kvPin, peerRec,
                   uniRec, blobs, memSt>>

\* a nextChunk that answers done and leaves an acknowledged session stored
NextAckedKeepsSession(p) ==
    /\ pc[p] = "next_chk"
    /\ ~IsStale(loc[p], now)
    /\ loc[p].completed
    /\ AckPositive(ReadStorage(ackRec, now))
    /\ Return(p, PlainRet("done"))
    /\ UNCHANGED <<now, sessRec, ackRec, ops, setAckSince, sigRec, kvSess, kvPin, peerRec,
                   uniRec, blobs, memSt>>

\* already completed: await readStorage(ackKey); acknowledged
NextAcked(p) ==
    /\ pc[p] = "next_chk"
    /\ ~IsStale(loc[p], now)
    /\ loc[p].completed
    /\ AckPositive(ReadStorage(ackRec, now))
    /\ pc' = [pc EXCEPT ![p] = "next_del"]
    /\ UNCHANGED <<now, sessRec, ackRec, arg, loc, ret, ops, setAckSince,
                   trace, sigRec, kvSess, kvPin, peerRec,
                   uniRec, blobs, memSt>>

\* await deleteStorage(key)
NextCleanSession(p) ==
    /\ pc[p] = "next_del"
    /\ sessRec' = Null
    /\ pc' = [pc EXCEPT ![p] = "next_delack"]
    /\ UNCHANGED <<now, ackRec, arg, loc, ret, ops, setAckSince, trace,
                   sigRec, kvSess, kvPin, peerRec,
                   uniRec, blobs, memSt>>

\* the ack record after the cleanup of nextChunk
CleanedAck(ack) == Null

\* await deleteStorage(ackKey), done
NextCleanAck(p) ==
    /\ pc[p] = "next_delack"
    /\ ackRec' = CleanedAck(ackRec)
    /\ setAckSince' = (setAckSince /\ ackRec' # Null)
    /\ Return(p, PlainRet("done"))
    /\ UNCHANGED <<now, sessRec, ops, sigRec, kvSess, kvPin, peerRec,
                   uniRec, blobs, memSt>>

\* a chunk is pending: await writeStorage(key, sess), chunkAvailable
NextChunkOut(p) ==
    /\ pc[p] = "next_chk"
    /\ ~IsStale(loc[p], now)
    /\ ~loc[p].completed
    /\ FirstPending(loc[p]) # -1
    /\ LET s == loc[p]
           i == FirstPending(s)
       IN /\ sessRec' = NextDeliver(s, i, now)
          /\ Return(p, NextRet("chunkAvailable", i, s.totalChunks, s.chunks[i]))
    /\ UNCHANGED <<now, ackRec, ops, setAckSince, sigRec, kvSess, kvPin, peerRec,
                   uniRec, blobs, memSt>>

\* nothing pending and all delivered: await writeStorage(key, sess), done
NextFinish(p) ==
    /\ pc[p] = "next_chk"
    /\ ~IsStale(loc[p], now)
    /\ ~loc[p].completed
    /\ FirstPending(loc[p]) = -1
    /\ AllDelivered(loc[p])
    /\ sessRec' = NextComplete(loc[p])
    /\ Return(p, PlainRet("done"))
    /\ UNCHANGED <<now, ackRec, ops, setAckSince, sigRec, kvSess, kvPin, peerRec,
                   uniRec, blobs, memSt>>

\* nothing pending yet: waiting
NextWaiting(p) ==
    /\ pc[p] = "next_chk"
    /\ ~IsStale(loc[p], now)
    /\ ~loc[p].completed
    /\ FirstPending(loc[p]) = -1
    /\ ~AllDelivered(loc[p])
    /\ Return(p, PlainRet("waiting"))
    /\ UNCHANGED <<now, sessRec, ackRec, ops, setAckSince, sigRec, kvSess,
                   kvPin, peerRec,
                   uniRec, blobs, memSt>>

----------------------------------------------------------------------------
(* setAcknowledged and getAcknowledged *)

NewAck(t) == [acknowledged |-> TRUE, expires |-> t + CHUNK_TTL_MS]

\* await writeStorage(ackKey, {acknowledged: true, expires})
AckWrite(p, budget) ==
    /\ pc[p] = "idle"
    /\ ops < budget
    /\ ackRec' = NewAck(now)
    /\ setAckSince' = TRUE
    /\ pc' = [pc EXCEPT ![p] = "ack_read"]
    /\ ops' = ops + 1
    /\ UNCHANGED <<now, sessRec, arg, loc, ret, trace, sigRec, kvSess, kvPin, peerRec,
                   uniRec, blobs, memSt>>

\* await readStorage(key); no session to update
AckNoSession(p) ==
    /\ pc[p] = "ack_read"
    /\ ReadStorage(sessRec, now) = Null
    /\ sessRec' = AfterRead(sessRec, now)
    /\ Return(p, [op |-> "setAck"])
    /\ UNCHANGED <<now, ackRec, ops, setAckSince, sigRec, kvSess, kvPin, peerRec,
                   uniRec, blobs, memSt>>

\* await readStorage(key); the session exists
AckRead(p) ==
    /\ pc[p] = "ack_read"
    /\ ReadStorage(sessRec, now) # Null
    /\ loc' = [loc EXCEPT ![p] = ReadStorage(sessRec, now)]
    /\ pc' = [pc EXCEPT ![p] = "ack_upd"]
    /\ UNCHANGED <<now, sessRec, ackRec, arg, ret, ops, setAckSince, trace,
                   sigRec, kvSess, kvPin, peerRec,
                   uniRec, blobs, memSt>>

AckSession(s, t) ==
    [s EXCEPT !.acknowledged = TRUE, !.lastTouched = t, !.expires = t + CHUNK_TTL_MS]

\* await writeStorage(key, sess)
AckUpdate(p) ==
    /\ pc[p] = "ack_upd"
    /\ sessRec' = AckSession(loc[p], now)
    /\ Return(p, [op |-> "setAck"])
    /\ UNCHANGED <<now, ackRec, ops, setAckSince, sigRec, kvSess, kvPin, peerRec,
                   uniRec, blobs, memSt>>

SessAcked(s) == s # Null /\ s.acknowledged = TRUE

\* a getAcknowledged that consults the session flag only
GetAckResultSessionOnly(ack, s) == SessAcked(s)

\* what getAcknowledged answers from the ack record and the session it reads
GetAckResult(ack, s) == AckPositive(ack) \/ SessAcked(s)

GetAckRet(v) == [op |-> "getAck", val |-> v]

\* await readStorage(ackKey); the ack record answers
GetAckHit(p, budget) ==
    /\ pc[p] = "idle"
    /\ ops < budget
    /\ AckPositive(ReadStorage(ackRec, now))
    /\ Return(p, GetAckRet(GetAckResult(ReadStorage(ackRec, now), Null)))
    /\ ops' = ops + 1
    /\ UNCHANGED <<now, sessRec, ackRec, setAckSince, sigRec, kvSess, kvPin, peerRec,
                   uniRec, blobs, memSt>>

\* await readStorage(ackKey); no ack record
GetAckMiss(p, budget) ==
    /\ pc[p] = "idle"
    /\ ops < budget
    /\ ~AckPositive(ReadStorage(ackRec, now))
    /\ ackRec' = AfterRead(ackRec, now)
    /\ setAckSince' = (setAckSince /\ ackRec' # Null)
    /\ pc' = [pc EXCEPT ![p] = "getack_sess"]
    /\ ops' = ops + 1
    /\ UNCHANGED <<now, sessRec, arg, loc, ret, trace, sigRec, kvSess, kvPin, peerRec,
                   uniRec, blobs, memSt>>

\* await readStorage(key); the session flag answers
GetAckSession(p) ==
    /\ pc[p] = "getack_sess"
    /\ sessRec' = AfterRead(sessRec, now)
    /\ Return(p, GetAckRet(GetAckResult(Null, ReadStorage(sessRec, now))))
    /\ UNCHANGED <<now, ackRec, ops, setAckSince, sigRec, kvSess, kvPin, peerRec,
                   uniRec, blobs, memSt>>

----------------------------------------------------------------------------
(* queueSignal and pollSignals *)

\* messages.filter(m => m.expires > now())
RECURSIVE Unexpired(_, _)
Unexpired(msgs, t) ==
    IF msgs = <<>> THEN <<>>
    ELSE IF Head(msgs).expires > t
         THEN <<Head(msgs)>> \o Unexpired(Tail(msgs), t)
         ELSE Unexpired(Tail(msgs), t)

NewMessage(from, type, payload, t) ==
    [from |-> from, type |-> type, payload |-> payload,
     timestamp |-> t, expires |-> t + SIGNAL_TTL_MS]

\* the mailbox queueSignal writes back
QueueStore(q, from, type, payload, t) ==
    LET base == IF q = Null THEN <<>> ELSE q.messages
    IN [messages |-> Append(Unexpired(base, t), NewMessage(from, type, payload, t)),
        expires |-> t + SIGNAL_TTL_MS]

\* what pollSignals hands out of a message
Handout(m) ==
    [from |-> m.from, type |-> m.type, payload |-> m.payload, timestamp |-> m.timestamp]

\* what pollSignals returns for the mailbox it read
PollResult(q, t) ==
    LET valid == Unexpired(q.messages, t)
    IN [k \in 1..Len(valid) |-> Handout(valid[k])]

PollIsEmpty(q) == IF q = Null THEN TRUE ELSE q.messages = <<>>

QueueRet(err) == [op |-> "queue", error |-> err]

PollRet(msgs) == [op |-> "poll", messages |-> msgs]

\* !from or !payload (an empty string, a zero): returns at once
QueueInvalid(p, from, payload, budget) ==
    /\ pc[p] = "idle"
    /\ ops < budget
    /\ from = "" \/ payload = 0
    /\ Return(p, QueueRet("missing_fields"))
    /\ ops' = ops + 1
    /\ UNCHANGED <<now, sessRec, ackRec, setAckSince, sigRec, kvSess, kvPin, peerRec,
                   uniRec, blobs, memSt>>

\* await readStorage(queueKey)
QueueRead(p, from, payload, budget) ==
    /\ pc[p] = "idle"
    /\ ops < budget
    /\ from # "" /\ payload # 0
    /\ loc' = [loc EXCEPT ![p] = ReadStorage(sigRec, now)]
    /\ sigRec' = AfterRead(sigRec, now)
    /\ arg' = [arg EXCEPT ![p] = [from |-> from, payload |-> payload]]
    /\ pc' = [pc EXCEPT ![p] = "queue_write"]
    /\ ops' = ops + 1
    /\ UNCHANGED <<now, sessRec, ackRec, ret, setAckSince, trace, kvSess, kvPin, peerRec,
                   uniRec, blobs, memSt>>

\* await writeStorage(queueKey, queue), queued
QueueWrite(p) ==
    /\ pc[p] = "queue_write"
    /\ sigRec' = QueueStore(loc[p], arg[p].from, "offer", arg[p].payload, now)
    /\ Return(p, QueueRet("none"))
    /\ UNCHANGED <<now, sessRec, ackRec, ops, setAckSince, kvSess, kvPin, peerRec,
                   uniRec, blobs, memSt>>

\* await readStorage(queueKey); no mailbox or no message: empty result
PollEmpty(p, budget) ==
    /\ pc[p] = "idle"
    /\ ops < budget
    /\ PollIsEmpty(ReadStorage(sigRec, now))
    /\ sigRec' = AfterRead(sigRec, now)
    /\ Return(p, PollRet(<<>>))
    /\ ops' = ops + 1
    /\ UNCHANGED <<now, sessRec, ackRec, setAckSince, kvSess, kvPin, peerRec,
                   uniRec, blobs, memSt>>

\* await readStorage(queueKey); there are messages
PollRead(p, budget) ==
    /\ pc[p] = "idle"
    /\ ops < budget
    /\ ~PollIsEmpty(ReadStorage(sigRec, now))
    /\ loc' = [loc EXCEPT ![p] = ReadStorage(sigRec, now)]
    /\ pc' = [pc EXCEPT ![p] = "poll_del"]
    /\ ops' = ops + 1
    /\ UNCHANGED <<now, sessRec, ackRec, sigRec, arg, ret, setAckSince, trace,
                   kvSess, kvPin, peerRec,
                   uniRec, blobs, memSt>>

\* the unexpired messages are picked; await deleteStorage(queueKey); return
PollDelete(p) ==
    /\ pc[p] = "poll_del"
    /\ sigRec' = Null
    /\ Return(p, PollRet(PollResult(loc[p], now)))
    /\ UNCHANGED <<now, sessRec, ackRec, ops, setAckSince, kvSess, kvPin, peerRec,
                   uniRec, blobs, memSt>>

\* the same step when blob.del throws: deleteStorage swallows the error, the
\* mailbox stays, and pollSignals returns what it picked all the same
PollDeleteFails(p) ==
    /\ pc[p] = "poll_del"
    /\ sigRec' = sigRec
    /\ Return(p, PollRet(PollResult(loc[p], now)))
    /\ UNCHANGED <<now, sessRec, ackRec, ops, setAckSince, kvSess, kvPin, peerRec,
                   uniRec, blobs, memSt>>

\* the clock of the mailbox specification
SigTick ==
    /\ now < 2 * SIGNAL_TTL_MS
    /\ now' = now + SigTickMs
    /\ UNCHANGED <<sessRec, ackRec, sigRec, kvSess, kvPin, pc, arg, loc, ret, ops,
                   setAckSince, trace, peerRec,
                   uniRec, blobs, memSt>>

----------------------------------------------------------------------------
(* registerPeer and lookupPeer *)

\* an invite code is a string: the sequence of its characters
AlphaNum ==
    {"A", "B", "C", "D", "E", "F", "G", "H", "I", "J", "K", "L", "M",
     "N", "O", "P", "Q", "R", "S", "T", "U", "V", "W", "X", "Y", "Z",
     "a", "b", "c", "d", "e", "f", "g", "h", "i", "j", "k", "l", "m",
     "n", "o", "p", "q", "r", "s", "t", "u", "v", "w", "x", "y", "z",
     "0", "1", "2", "3", "4", "5", "6", "7", "8", "9"}

\* /^[A-Za-z0-9]{8}$/.test(inviteCode)
InviteCodeFormat(ic) ==
    /\ Len(ic) = 8
    /\ \A k \in 1..Len(ic) : ic[k] \in AlphaNum

\* the error registerPeer returns before it touches the store, or "none"
RegisterInputError(ic, peer) ==
    IF ic = <<>> \/ peer = "" THEN "missing_fields"
    ELSE IF ~InviteCodeFormat(ic) THEN "invalid_invite_code"
    ELSE "none"

\* a collision check that forgets to compare the peer
RegisterErrorAnyPeer(existing, peer, t) ==
    IF existing = Null THEN "none"
    ELSE IF existing.expires > t THEN "invite_code_in_use"
    ELSE "none"

\* the error registerPeer returns for the registration it read, or "none"
RegisterError(existing, peer, t) ==
    IF existing = Null THEN "none"
    ELSE IF existing.expires > t /\ existing.peerId # peer THEN "invite_code_in_use"
    ELSE "none"

NewPeer(peer, t) ==
    [peerId |-> peer, created |-> t, expires |-> t + SIGNAL_TTL_MS]

RegisterRet(peer, status, err) ==
    [op |-> "register", peerId |-> peer, status |-> status, error |-> err,
     ttlSec |-> IF status = "registered" THEN SIGNAL_TTL_MS \div 1000 ELSE 0]

LookupRet(peer, err) == [op |-> "lookup", peerId |-> peer, error |-> err]

\* what lookupPeer returns for the registration it read
LookupResult(sess, t) ==
    IF sess = Null THEN LookupRet("", "peer_not_found")
    ELSE IF sess.expires < t THEN LookupRet("", "peer_not_found")
    ELSE LookupRet(sess.peerId, "none")

\* missing field or malformed invite code: returns at once
RegisterInvalid(p, ic, peer, budget) ==
    /\ pc[p] = "idle"
    /\ ops < budget
    /\ RegisterInputError(ic, peer) # "none"
    /\ Return(p, RegisterRet(peer, "", RegisterInputError(ic, peer)))
    /\ ops' = ops + 1
    /\ UNCHANGED <<now, sessRec, ackRec, setAckSince, sigRec, kvSess, kvPin, peerRec,
                   uniRec, blobs, memSt>>

\* await readStorage(peerKey); the code is held by another peer
RegisterReject(p, ic, peer, budget) ==
    /\ pc[p] = "idle"
    /\ ops < budget
    /\ RegisterInputError(ic, peer) = "none"
    /\ RegisterError(ReadStorage(peerRec, now), peer, now) # "none"
    /\ peerRec' = AfterRead(peerRec, now)
    /\ Return(p, RegisterRet(peer, "", RegisterError(ReadStorage(peerRec, now), peer, now)))
    /\ ops' = ops + 1
    /\ UNCHANGED <<now, sessRec, ackRec, setAckSince, sigRec, kvSess, kvPin,
                   uniRec, blobs, memSt>>

\* await readStorage(peerKey); the code is free, expired or the peer's own
RegisterRead(p, ic, peer, budget) ==
    /\ pc[p] = "idle"
    /\ ops < budget
    /\ RegisterInputError(ic, peer) = "none"
    /\ RegisterError(ReadStorage(peerRec, now), peer, now) = "none"
    /\ peerRec' = AfterRead(peerRec, now)
    /\ arg' = [arg EXCEPT ![p] = [peerId |-> peer]]
    /\ pc' = [pc EXCEPT ![p] = "reg_write"]
    /\ ops' = ops + 1
    /\ UNCHANGED <<now, sessRec, ackRec, loc, ret, setAckSince, trace, sigRec,
                   kvSess, kvPin,
                   uniRec, blobs, memSt>>

\* await writeStorage(peerKey, ...), registered
RegisterWrite(p) ==
    /\ pc[p] = "reg_write"
    /\ peerRec' = NewPeer(arg[p].peerId, now)
    /\ Return(p, RegisterRet(arg[p].peerId, "registered", "none"))
    /\ UNCHANGED <<now, sessRec, ackRec, ops, setAckSince, sigRec, kvSess, kvPin,
                   uniRec, blobs, memSt>>

\* !inviteCode: returns at once
LookupInvalid(p, ic, budget) ==
    /\ pc[p] = "idle"
    /\ ops < budget
    /\ ic = <<>>
    /\ Return(p, LookupRet("", "missing_invite_code"))
    /\ ops' = ops + 1
    /\ UNCHANGED <<now, sessRec, ackRec, setAckSince, sigRec, kvSess, kvPin, peerRec,
                   uniRec, blobs, memSt>>

\* await readStorage(peerKey), then the answer
LookupRead(p, ic, budget) ==
    /\ pc[p] = "idle"
    /\ ops < budget
    /\ ic # <<>>
    /\ peerRec' = AfterRead(peerRec, now)
    /\ Return(p, LookupResult(ReadStorage(peerRec, now), now))
    /\ ops' = ops + 1
    /\ UNCHANGED <<now, sessRec, ackRec, setAckSince, sigRec, kvSess, kvPin,
                   uniRec, blobs, memSt>>

\* the clock of the registration specification
PeerTick ==
    /\ now < MaxPeerTicks * PeerTickMs
    /\ now' = now + PeerTickMs
    /\ UNCHANGED <<sessRec, ackRec, sigRec, kvSess, kvPin, peerRec, pc, arg, loc,
                   ret, ops, setAckSince, trace,
                   uniRec, blobs, memSt>>

----------------------------------------------------------------------------
(* The keys of the store, and the relay calls of one client on the        *)
(* sessions of several (inviteCode, passwordHash) pairs.  A string is the  *)
(* sequence of its characters; the prefix of a key is one token.           *)

\* parts.join(':')
RECURSIVE Join(_)
Join(parts) ==
    IF Len(parts) = 0 THEN <<>>
    ELSE IF Len(parts) = 1 THEN parts[1]
    ELSE parts[1] \o <<":">> \o Join(Tail(parts))

\* deriveSecureKey: the SHA-256 digest of the joined parts; the digest is
\* taken to be free of collisions, so it is identified by the text digested
DeriveSecureKey(parts) == Join(parts)

\* storageKey: the prefix and the digest of prefix and parts
StorageKey(prefix, parts) == <<prefix, DeriveSecureKey(<<<<prefix>>>> \o parts)>>

SessionKey(ic, ph) == StorageKey("sess", <<ic, ph>>)

AckKey(ic, ph) == StorageKey("ack", <<ic, ph>>)

\* memoryStore.get, set, delete
Get(store, key) == IF key \in DOMAIN store THEN store[key] ELSE Null

Put(store, key, rec) ==
    [k \in (DOMAIN store) \cup {key} |-> IF k = key THEN rec ELSE store[k]]

Del(store, key) == [k \in (DOMAIN store) \ {key} |-> store[k]]

\* readStorage(key) on the store: what it yields and what it leaves
ReadAt(store, key, t) == ReadStorage(Get(store, key), t)

AfterReadAt(store, key, t) ==
    IF AfterRead(Get(store, key), t) = Null THEN Del(store, key) ELSE store

\* pushChunk run from start to end: the store it leaves and its error
KeyedPushResult(store, ic, ph, idx, total, d, t) ==
    LET key == SessionKey(ic, ph)
        sess == ReadAt(store, key, t)
        st1 == AfterReadAt(store, key, t)
    IN IF ~PushValid(idx, total) THEN [store |-> store, error |-> "invalid_chunk"]
       ELSE IF PushError(sess, idx, total) # "none"
       THEN [store |-> st1, error |-> PushError(sess, idx, total)]
       ELSE [store |-> Put(st1, key, PushStore(sess, idx, total, d, t)),
             error |-> "none"]

\* nextChunk run from start to end: the store it leaves and its result
KeyedNextResult(store, ic, ph, t) ==
    LET key == SessionKey(ic, ph)
        ackKey == AckKey(ic, ph)
        sess == ReadAt(store, key, t)
        st1 == AfterReadAt(store, key, t)
        ack == ReadAt(st1, ackKey, t)
        st2 == AfterReadAt(st1, ackKey, t)
    IN IF sess = Null THEN [store |-> st1, ret |-> PlainRet("expired")]
       ELSE IF IsStale(sess, t)
       THEN [store |-> Del(st1, key), ret |-> PlainRet("expired")]
       ELSE IF sess.completed
       THEN [store |-> IF AckPositive(ack) THEN Del(Del(st2, key), ackKey) ELSE st2,
             ret |-> PlainRet("done")]
       ELSE IF FirstPending(sess) # -1
       THEN [store |-> Put(st1, key, NextDeliver(sess, FirstPending(sess), t)),
             ret |-> NextRet("chunkAvailable", FirstPending(sess), sess.totalChunks,
                             sess.chunks[FirstPending(sess)])]
       ELSE IF AllDelivered(sess)
       THEN [store |-> Put(st1, key, NextComplete(sess)), ret |-> PlainRet("done")]
       ELSE [store |-> st1, ret |-> PlainRet("waiting")]

\* setAcknowledged run from start to end: the store it leaves
KeyedAckResult(store, ic, ph, t) ==
    LET key == SessionKey(ic, ph)
        st1 == Put(store, AckKey(ic, ph), NewAck(t))
        sess == ReadAt(st1, key, t)
        st2 == AfterReadAt(st1, key, t)
    IN IF sess = Null THEN st2 ELSE Put(st2, key, AckSession(sess, t))

\* what a call returns, with the pair it was made for
ForPair(r, ic, ph) == [call |-> r, pin |-> ic, passwordHash |-> ph]

KeyedPush(p, ic, ph, idx, total, d, budget) ==
    /\ pc[p] = "idle"
    /\ ops < budget
    /\ blobs' = KeyedPushResult(blobs, ic, ph, idx, total, d, now).store
    /\ Return(p, ForPair(PushRet([idx |-> idx, total |-> total, data |-> d],
                   KeyedPushResult(blobs, ic, ph, idx, total, d, now).error), ic, ph))
    /\ ops' = ops + 1
    /\ UNCHANGED <<now, sessRec, ackRec, setAckSince, sigRec, kvSess, kvPin, peerRec,
                   uniRec, memSt>>

KeyedNext(p, ic, ph, budget) ==
    /\ pc[p] = "idle"
    /\ ops < budget
    /\ blobs' = KeyedNextResult(blobs, ic, ph, now).store
    /\ Return(p, ForPair(KeyedNextResult(blobs, ic, ph, now).ret, ic, ph))
    /\ ops' = ops + 1
    /\ UNCHANGED <<now, sessRec, ackRec, setAckSince, sigRec, kvSess, kvPin, peerRec,
                   uniRec, memSt>>

KeyedAck(p, ic, ph, budget) ==
    /\ pc[p] = "idle"
    /\ ops < budget
    /\ blobs' = KeyedAckResult(blobs, ic, ph, now)
    /\ Return(p, ForPair([op |-> "setAck"], ic, ph))
    /\ ops' = ops + 1
    /\ UNCHANGED <<now, sessRec, ackRec, setAckSince, sigRec, kvSess, kvPin, peerRec,
                   uniRec, memSt>>

----------------------------------------------------------------------------
(* The unidirectional relay of api/_lib/store.js: pushChunk, nextChunk and *)
(* deleteSession keyed by the invite code alone.  Nothing is awaited in    *)
(* these functions, so each call is one step.                              *)

\* totalChunks: null of a placeholder session
NoTotal == 0

\* getChunkTTL
GetChunkTTL(total) ==
    IF total = NoTotal \/ total <= 0 THEN USER_INPUT_TIME_MS
    ELSE USER_INPUT_TIME_MS + total * CHUNK_TTL_PER_CHUNK_MS

\* purgeExpired, for the session of the invite code
UniPurged(s, cutoff) == IF s # Null /\ s.expires < cutoff THEN Null ELSE s

\* the session pushChunk creates
UniNewSession(total, t) ==
    [created |-> t, lastTouched |-> t, expires |-> t + GetChunkTTL(total),
     totalChunks |-> total, chunks |-> <<>>, delivered |-> <<>>,
     completed |-> FALSE, waitingForSender |-> FALSE, ttl |-> GetChunkTTL(total)]

\* the placeholder nextChunk creates when the receiver comes first
UniPlaceholder(t) ==
    [created |-> t, lastTouched |-> t, expires |-> t + GetChunkTTL(NoTotal),
     totalChunks |-> NoTotal, chunks |-> <<>>, delivered |-> <<>>,
     completed |-> FALSE, waitingForSender |-> TRUE, ttl |-> GetChunkTTL(NoTotal)]

\* an upgrade that leaves totalChunks of the placeholder unset
UniUpgradeKeepsNull(s, total, t) ==
    [s EXCEPT !.ttl = GetChunkTTL(total),
              !.expires = t + GetChunkTTL(total),
              !.waitingForSender = FALSE]

\* pushChunk upgrades the placeholder the receiver created
UniUpgrade(s, total, t) ==
    [s EXCEPT !.totalChunks = total,
              !.ttl = GetChunkTTL(total),
              !.expires = t + GetChunkTTL(total),
              !.waitingForSender = FALSE]

\* the session pushChunk works on once it has looked at totalChunks
UniPushBase(s, total, t) ==
    IF s = Null THEN UniNewSession(total, t)
    ELSE IF s.totalChunks = NoTotal THEN UniUpgrade(s, total, t)
    ELSE s

\* pushChunk: the stored session and the error it ends with ("none": accepted)
UniPushResult(s0, idx, total, d, t) ==
    LET s == UniPurged(s0, t)
        base == UniPushBase(s, total, t)
    IN IF ~PushValid(idx, total)
       THEN [store |-> s0, error |-> "invalid_chunk"]
       ELSE IF base.totalChunks # total
       THEN [store |-> s, error |-> "totalChunks_mismatch"]
       ELSE IF IsDuplicate(base, idx)
       THEN [store |-> base, error |-> "duplicate_chunk"]
       ELSE [store |-> [base EXCEPT !.chunks = PutChunk(base.chunks, idx, d),
                                    !.lastTouched = t,
                                    !.expires = t + base.ttl],
             error |-> "none"]

\* lastTouched and expires are refreshed
UniTouched(s, t) == [s EXCEPT !.lastTouched = t, !.expires = t + s.ttl]

\* nextChunk: the stored session and the result
UniNextResult(s0, t) ==
    LET s == UniPurged(s0, t)
    IN IF s = Null
       THEN [store |-> UniPlaceholder(t), ret |-> PlainRet("waiting")]
       ELSE IF t - s.lastTouched > s.ttl * 2
       THEN [store |-> Null, ret |-> PlainRet("expired")]
       ELSE IF s.waitingForSender /\ s.totalChunks = NoTotal
       THEN [store |-> UniTouched(s, t), ret |-> PlainRet("waiting")]
       ELSE IF s.completed
       THEN [store |-> s, ret |-> PlainRet("done")]
       ELSE IF s.totalChunks # NoTotal /\ FirstPending(s) # -1
       THEN [store |-> [UniTouched(s, t) EXCEPT
                           !.chunks = DropChunk(s.chunks, FirstPending(s)),
                           !.delivered = Append(s.delivered, FirstPending(s))],
             ret |-> NextRet("chunkAvailable", FirstPending(s), s.totalChunks,
                             s.chunks[FirstPending(s)])]
       ELSE IF s.totalChunks # NoTotal /\ Len(s.delivered) = s.totalChunks
       THEN [store |-> NextComplete(s), ret |-> PlainRet("done")]
       ELSE [store |-> UniTouched(s, t), ret |-> PlainRet("waiting")]

UniPush(p, idx, total, d, budget) ==
    /\ pc[p] = "idle"
    /\ ops < budget
    /\ uniRec' = UniPushResult(uniRec, idx, total, d, now).store
    /\ Return(p, PushRet([idx |-> idx, total |-> total, data |-> d],
                         UniPushResult(uniRec, idx, total, d, now).error))
    /\ ops' = ops + 1
    /\ UNCHANGED <<now, sessRec, ackRec, setAckSince, sigRec, kvSess, kvPin, peerRec,
                   blobs, memSt>>

UniNext(p, budget) ==
    /\ pc[p] = "idle"
    /\ ops < budget
    /\ uniRec' = UniNextResult(uniRec, now).store
    /\ Return(p, UniNextResult(uniRec, now).ret)
    /\ ops' = ops + 1
    /\ UNCHANGED <<now, sessRec, ackRec, setAckSince, sigRec, kvSess, kvPin, peerRec,
                   blobs, memSt>>

\* deleteSession(pin)
UniDelete(p, budget) ==
    /\ pc[p] = "idle"
    /\ ops < budget
    /\ uniRec' = Null
    /\ Return(p, [op |-> "delete",
                  status |-> IF UniPurged(uniRec, now) # Null THEN "deleted"
                             ELSE "not_found"])
    /\ ops' = ops + 1
    /\ UNCHANGED <<now, sessRec, ackRec, setAckSince, sigRec, kvSess, kvPin, peerRec,
                   blobs, memSt>>

\* the clock of the unidirectional relay specification
UniTick ==
    /\ now < MaxUniTicks * UniTickMs
    /\ now' = now + UniTickMs
    /\ UNCHANGED <<sessRec, ackRec, sigRec, kvSess, kvPin, pc, arg, loc, ret, ops,
                   setAckSince, trace, peerRec, uniRec, blobs, memSt>>

----------------------------------------------------------------------------
(* The key-value store of api/_lib/store.js (in-memory backend) *)

\* memSet: the entry with its expiry
MemSet(val, ttlSec, t) == [val |-> val, exp |-> t + ttlSec * 1000]

\* memGet: the value, or null when absent or expired
MemGet(e, t) ==
    IF e = Null THEN Null
    ELSE IF e.exp <= t THEN Null
    ELSE e.val

\* what memGet leaves in the store
MemAfterGet(e, t) ==
    IF e = Null THEN Null
    ELSE IF e.exp <= t THEN Null
    ELSE e

\* memTtl: whole seconds left, -2 when absent or past
MemTtl(e, t) ==
    IF e = Null THEN -2
    ELSE IF e.exp - t >= 0 THEN (e.exp - t) \div 1000
    ELSE -2

\* kvExpire: a live entry gets a new time to live
KvExpire(e, ttlSec, t) ==
    IF MemGet(e, t) = Null THEN MemAfterGet(e, t)
    ELSE MemSet(e.val, ttlSec, t)

\* the ttl saveSession stores with
SaveTtlOf(ttl) == IF ttl > 0 THEN ttl ELSE 1

NewEnvSession ==
    [offerEnvelope |-> "none", answerEnvelope |-> "none", answerDelivered |-> FALSE]

\* validateEnvelope: the error, or "none"
ValidateEnvelope(env) == IF env = "bad" THEN "invalid_envelope" ELSE "none"

EnvRet(op, status, val) == [op |-> op, status |-> status, val |-> val]

\* POST /sessions: createSession, kvSetNx(pinKey(p), id, ttlSec)
Create(p, budget) ==
    /\ pc[p] = "idle"
    /\ ops = 0
    /\ ops < budget
    /\ kvPin = Null
    /\ kvPin' = MemSet([sid |-> "S1"], SESS_TTL_SEC, now)
    /\ pc' = [pc EXCEPT ![p] = "create_set"]
    /\ ops' = ops + 1
    /\ UNCHANGED <<now, sessRec, ackRec, sigRec, kvSess, arg, loc, ret,
                   setAckSince, trace, peerRec,
                   uniRec, blobs, memSt>>

\* createSession: kvSet(sessionKey(id), sess, ttlSec)
CreateSet(p) ==
    /\ pc[p] = "create_set"
    /\ kvSess' = MemSet(NewEnvSession, SESS_TTL_SEC, now)
    /\ Return(p, EnvRet("create", "ok", "S1"))
    /\ UNCHANGED <<now, sessRec, ackRec, sigRec, kvPin, ops, setAckSince, peerRec,
                   uniRec, blobs, memSt>>

\* getAlive: the session id is not a UUID
EnvBadId(p, m, budget) ==
    /\ pc[p] = "idle"
    /\ ops < budget
    /\ Return(p, EnvRet(m, "session_not_found", "none"))
    /\ ops' = ops + 1
    /\ UNCHANGED <<now, sessRec, ackRec, sigRec, kvSess, kvPin, setAckSince, peerRec,
                   uniRec, blobs, memSt>>

\* getAlive: await getSession(sessionId); no session
EnvGone(p, m, budget) ==
    /\ pc[p] = "idle"
    /\ ops < budget
    /\ MemGet(kvSess, now) = Null
    /\ kvSess' = MemAfterGet(kvSess, now)
    /\ Return(p, EnvRet(m, "session_not_found", "none"))
    /\ ops' = ops + 1
    /\ UNCHANGED <<now, sessRec, ackRec, sigRec, kvPin, setAckSince, peerRec,
                   uniRec, blobs, memSt>>

\* getAlive: await getSession(sessionId); the session is there
EnvGet(p, m, env, budget) ==
    /\ pc[p] = "idle"
    /\ ops < budget
    /\ MemGet(kvSess, now) # Null
    /\ loc' = [loc EXCEPT ![p] = MemGet(kvSess, now)]
    /\ arg' = [arg EXCEPT ![p] = [m |-> m, env |-> env, ttl |-> 0]]
    /\ pc' = [pc EXCEPT ![p] = "alive_ttl"]
    /\ ops' = ops + 1
    /\ UNCHANGED <<now, sessRec, ackRec, sigRec, kvSess, kvPin, ret,
                   setAckSince, trace, peerRec,
                   uniRec, blobs, memSt>>

\* getAlive: await getSessionTtlSec(sessionId); ttl <= 0
AliveExpired(p) ==
    /\ pc[p] = "alive_ttl"
    /\ MemTtl(kvSess, now) <= 0
    /\ Return(p, EnvRet(arg[p].m, "session_expired", "none"))
    /\ UNCHANGED <<now, sessRec, ackRec, sigRec, kvSess, kvPin, ops, setAckSince, peerRec,
                   uniRec, blobs, memSt>>

\* what POST offer answers without storing, or "none"
PostOfferError(sess, env) ==
    IF ValidateEnvelope(env) # "none" THEN ValidateEnvelope(env)
    ELSE IF sess.offerEnvelope # "none" THEN "offer_already_set"
    ELSE "none"

\* a POST answer that does not look for the offer
PostAnswerErrorNoOfferCheck(sess, env) ==
    IF ValidateEnvelope(env) # "none" THEN ValidateEnvelope(env)
    ELSE IF sess.answerEnvelope # "none" THEN "answer_already_set"
    ELSE "none"

\* what POST answer answers without storing, or "none"
PostAnswerError(sess, env) ==
    IF ValidateEnvelope(env) # "none" THEN ValidateEnvelope(env)
    ELSE IF sess.offerEnvelope = "none" THEN "offer_not_set"
    ELSE IF sess.answerEnvelope # "none" THEN "answer_already_set"
    ELSE "none"

PostError(m, sess, env) ==
    IF m = "postOffer" THEN PostOfferError(sess, env) ELSE PostAnswerError(sess, env)

PostUpdate(m, sess, env) ==
    IF m = "postOffer" THEN [sess EXCEPT !.offerEnvelope = env]
    ELSE [sess EXCEPT !.answerEnvelope = env]

\* POST offer or answer: alive, but the request is refused
PostReject(p) ==
    /\ pc[p] = "alive_ttl"
    /\ arg[p].m \in {"postOffer", "postAnswer"}
    /\ MemTtl(kvSess, now) > 0
    /\ PostError(arg[p].m, loc[p], arg[p].env) # "none"
    /\ Return(p, EnvRet(arg[p].m, PostError(arg[p].m, loc[p], arg[p].env), "none"))
    /\ UNCHANGED <<now, sessRec, ackRec, sigRec, kvSess, kvPin, ops, setAckSince, peerRec,
                   uniRec, blobs, memSt>>

\* POST offer or answer: alive and accepted, the envelope is put in
PostAccept(p) ==
    /\ pc[p] = "alive_ttl"
    /\ arg[p].m \in {"postOffer", "postAnswer"}
    /\ MemTtl(kvSess, now) > 0
    /\ PostError(arg[p].m, loc[p], arg[p].env) = "none"
    /\ loc' = [loc EXCEPT ![p] = PostUpdate(arg[p].m, loc[p], arg[p].env)]
    /\ pc' = [pc EXCEPT ![p] = "save_ttl"]
    /\ UNCHANGED <<now, sessRec, ackRec, sigRec, kvSess, kvPin, arg, ret, ops,
                   setAckSince, trace, peerRec,
                   uniRec, blobs, memSt>>

\* GET answer: alive, no answer yet
GetAnswerNotSet(p) ==
    /\ pc[p] = "alive_ttl"
    /\ arg[p].m = "getAnswer"
    /\ MemTtl(kvSess, now) > 0
    /\ loc[p].answerEnvelope = "none"
    /\ Return(p, EnvRet("getAnswer", "answer_not_set", "none"))
    /\ UNCHANGED <<now, sessRec, ackRec, sigRec, kvSess, kvPin, ops, setAckSince, peerRec,
                   uniRec, blobs, memSt>>

\* GET answer: alive, answerDelivered already set: the envelope again
GetAnswerAgain(p) ==
    /\ pc[p] = "alive_ttl"
    /\ arg[p].m = "getAnswer"
    /\ MemTtl(kvSess, now) > 0
    /\ loc[p].answerEnvelope # "none"
    /\ loc[p].answerDelivered
    /\ Return(p, EnvRet("getAnswer", "envelope", loc[p].answerEnvelope))
    /\ UNCHANGED <<now, sessRec, ackRec, sigRec, kvSess, kvPin, ops, setAckSince, peerRec,
                   uniRec, blobs, memSt>>

\* GET answer: alive, first delivery: answerDelivered is flipped
GetAnswerFirst(p) ==
    /\ pc[p] = "alive_ttl"
    /\ arg[p].m = "getAnswer"
    /\ MemTtl(kvSess, now) > 0
    /\ loc[p].answerEnvelope # "none"
    /\ ~loc[p].answerDelivered
    /\ loc' = [loc EXCEPT ![p].answerDelivered = TRUE]
    /\ pc' = [pc EXCEPT ![p] = "save_ttl"]
    /\ UNCHANGED <<now, sessRec, ackRec, sigRec, kvSess, kvPin, arg, ret, ops,
                   setAckSince, trace, peerRec,
                   uniRec, blobs, memSt>>

\* saveSession: await kvTtl(sessionKey(sess.id))
SaveTtl(p) ==
    /\ pc[p] = "save_ttl"
    /\ arg' = [arg EXCEPT ![p].ttl = MemTtl(kvSess, now)]
    /\ pc' = [pc EXCEPT ![p] = "save_set"]
    /\ UNCHANGED <<now, sessRec, ackRec, sigRec, kvSess, kvPin, loc, ret, ops,
                   setAckSince, trace, peerRec,
                   uniRec, blobs, memSt>>

\* saveSession: await kvSet(...); a POST is done
SaveSetPost(p) ==
    /\ pc[p] = "save_set"
    /\ arg[p].m # "getAnswer"
    /\ kvSess' = MemSet(loc[p], SaveTtlOf(arg[p].ttl), now)
    /\ Return(p, EnvRet(arg[p].m, "ok", "none"))
    /\ UNCHANGED <<now, sessRec, ackRec, sigRec, kvPin, ops, setAckSince, peerRec,
                   uniRec, blobs, memSt>>

\* saveSession: await kvSet(...); GET answer goes on
SaveSetGet(p) ==
    /\ pc[p] = "save_set"
    /\ arg[p].m = "getAnswer"
    /\ kvSess' = MemSet(loc[p], SaveTtlOf(arg[p].ttl), now)
    /\ pc' = [pc EXCEPT ![p] = "expire_soon"]
    /\ UNCHANGED <<now, sessRec, ackRec, sigRec, kvPin, arg, loc, ret, ops,
                   setAckSince, trace, peerRec,
                   uniRec, blobs, memSt>>

\* await setSessionExpireSoon(sess.id, 1); the envelope is returned
ExpireSoon(p) ==
    /\ pc[p] = "expire_soon"
    /\ kvSess' = KvExpire(kvSess, 1, now)
    /\ Return(p, EnvRet("getAnswer", "envelope", loc[p].answerEnvelope))
    /\ UNCHANGED <<now, sessRec, ackRec, sigRec, kvPin, ops, setAckSince, peerRec,
                   uniRec, blobs, memSt>>

\* GET offer: alive, no offer yet
GetOfferNotSet(p) ==
    /\ pc[p] = "alive_ttl"
    /\ arg[p].m = "getOffer"
    /\ MemTtl(kvSess, now) > 0
    /\ loc[p].offerEnvelope = "none"
    /\ Return(p, EnvRet("getOffer", "offer_not_set", "none"))
    /\ UNCHANGED <<now, sessRec, ackRec, sigRec, kvSess, kvPin, ops, setAckSince, peerRec,
                   uniRec, blobs, memSt>>

\* GET offer: alive, the envelope is returned
GetOfferOk(p) ==
    /\ pc[p] = "alive_ttl"
    /\ arg[p].m = "getOffer"
    /\ MemTtl(kvSess, now) > 0
    /\ loc[p].offerEnvelope # "none"
    /\ Return(p, EnvRet("getOffer", "envelope", loc[p].offerEnvelope))
    /\ UNCHANGED <<now, sessRec, ackRec, sigRec, kvSess, kvPin, ops, setAckSince, peerRec,
                   uniRec, blobs, memSt>>

\* a DELETE that answers 404 when there is no session to delete
DeleteStatusIfPresent(sess) ==
    IF sess = Null THEN "session_not_found" ELSE "204"

\* the status DELETE answers for a session id, whatever the store held
DeleteStatus(sess) == "204"

\* DELETE /sessions/{id}: the session id is not a UUID
DeleteBadId(p, budget) ==
    /\ pc[p] = "idle"
    /\ ops < budget
    /\ Return(p, EnvRet("delete", "session_not_found", "bad"))
    /\ ops' = ops + 1
    /\ UNCHANGED <<now, sessRec, ackRec, sigRec, kvSess, kvPin, setAckSince, peerRec,
                   uniRec, blobs, memSt>>

\* DELETE /sessions/{id}: await deleteSession(sessionId), kvDel(sessionKey(id))
EnvDelete(p, budget) ==
    /\ pc[p] = "idle"
    /\ ops < budget
    /\ kvSess' = Null
    /\ Return(p, EnvRet("delete", DeleteStatus(MemGet(kvSess, now)), "S1"))
    /\ ops' = ops + 1
    /\ UNCHANGED <<now, sessRec, ackRec, sigRec, kvPin, setAckSince, peerRec,
                   uniRec, blobs, memSt>>

\* GET /sessions/resolve: the pin is not six digits
ResolveBadPin(p, budget) ==
    /\ pc[p] = "idle"
    /\ ops < budget
    /\ Return(p, EnvRet("resolve", "pin_not_found", "none"))
    /\ ops' = ops + 1
    /\ UNCHANGED <<now, sessRec, ackRec, sigRec, kvSess, kvPin, setAckSince, peerRec,
                   uniRec, blobs, memSt>>

\* resolvePinOnce: await kvGet(pinKey(pin))
\* (rateAllowResolve lets a client's first 30 calls of a minute through;
\*  fewer calls than that are made here)
ResolveGet(p, budget) ==
    /\ pc[p] = "idle"
    /\ ops < budget
    /\ loc' = [loc EXCEPT ![p] = MemGet(kvPin, now)]
    /\ kvPin' = MemAfterGet(kvPin, now)
    /\ pc' = [pc EXCEPT ![p] = "res_del"]
    /\ ops' = ops + 1
    /\ UNCHANGED <<now, sessRec, ackRec, sigRec, kvSess, arg, ret, setAckSince, trace, peerRec,
                   uniRec, blobs, memSt>>

\* what resolvePinOnce leaves of the PIN entry
PinConsumed(pin) == Null

\* resolvePinOnce: await kvDel(pinKey(pin)); no session id was read
ResolveMiss(p) ==
    /\ pc[p] = "res_del"
    /\ loc[p] = Null
    /\ kvPin' = PinConsumed(kvPin)
    /\ Return(p, EnvRet("resolve", "pin_not_found", "none"))
    /\ UNCHANGED <<now, sessRec, ackRec, sigRec, kvSess, ops, setAckSince, peerRec,
                   uniRec, blobs, memSt>>

\* resolvePinOnce: await kvDel(pinKey(pin)); a session id was read
ResolveDel(p) ==
    /\ pc[p] = "res_del"
    /\ loc[p] # Null
    /\ kvPin' = PinConsumed(kvPin)
    /\ pc' = [pc EXCEPT ![p] = "res_sess"]
    /\ UNCHANGED <<now, sessRec, ackRec, sigRec, kvSess, arg, loc, ret, ops,
                   setAckSince, trace, peerRec,
                   uniRec, blobs, memSt>>

\* await getSession(sessionId); the session is gone
ResolveGone(p) ==
    /\ pc[p] = "res_sess"
    /\ MemGet(kvSess, now) = Null
    /\ kvSess' = MemAfterGet(kvSess, now)
    /\ Return(p, EnvRet("resolve", "pin_expired", "none"))
    /\ UNCHANGED <<now, sessRec, ackRec, sigRec, kvPin, ops, setAckSince, peerRec,
                   uniRec, blobs, memSt>>

\* await getSession(sessionId); the session is there
ResolveSess(p) ==
    /\ pc[p] = "res_sess"
    /\ MemGet(kvSess, now) # Null
    /\ pc' = [pc EXCEPT ![p] = "res_ttl"]
    /\ UNCHANGED <<now, sessRec, ackRec, sigRec, kvSess, kvPin, arg, loc, ret, ops,
                   setAckSince, trace, peerRec,
                   uniRec, blobs, memSt>>

\* await getSessionTtlSec(sessionId); ttlSec <= 0
ResolveExpired(p) ==
    /\ pc[p] = "res_ttl"
    /\ MemTtl(kvSess, now) <= 0
    /\ Return(p, EnvRet("resolve", "pin_expired", "none"))
    /\ UNCHANGED <<now, sessRec, ackRec, sigRec, kvSess, kvPin, ops, setAckSince, peerRec,
                   uniRec, blobs, memSt>>

\* await getSessionTtlSec(sessionId); the session id is sent
ResolveOk(p) ==
    /\ pc[p] = "res_ttl"
    /\ MemTtl(kvSess, now) > 0
    /\ Return(p, EnvRet("resolve", "ok", loc[p].sid))
    /\ UNCHANGED <<now, sessRec, ackRec, sigRec, kvSess, kvPin, ops, setAckSince, peerRec,
                   uniRec, blobs, memSt>>

\* the clock of the envelope specification
EnvTick ==
    /\ now < MaxEnvTicks * EnvTickMs
    /\ now' = now + EnvTickMs
    /\ UNCHANGED <<sessRec, ackRec, sigRec, kvSess, kvPin, pc, arg, loc, ret, ops,
                   setAckSince, trace, peerRec,
                   uniRec, blobs, memSt>>

----------------------------------------------------------------------------
(* The in-memory session store (memstore): byId and byPinHash.  Its        *)
(* functions await nothing, so each call is one step.  A PIN is the        *)
(* sequence of its digits.                                                 *)

\* _pinHash: the HMAC of the PIN, taken to be free of collisions
PinHash(pin) == <<"hmac">> \o pin

\* _genPin: of the PINs drawn at random, the first of GEN_PIN_TRIES that is
\* no key of byPinHash, else the one drawn after them
GenPin(draws, byPinHash) ==
    IF \E i \in 1..GEN_PIN_TRIES : draws[i] \notin DOMAIN byPinHash
    THEN draws[CHOOSE i \in 1..GEN_PIN_TRIES :
                  /\ draws[i] \notin DOMAIN byPinHash
                  /\ \A j \in 1..(i - 1) : draws[j] \in DOMAIN byPinHash]
    ELSE draws[GEN_PIN_TRIES + 1]

\* the session createSession stores
MemSession(pin, ttlSec, t) ==
    [pinHash |-> PinHash(pin), expiresAtMs |-> t + ttlSec * 1000,
     offerEnvelope |-> "none", answerEnvelope |-> "none"]

\* createSession(id, saltB64, ttlSec)
MemCreate(p, id, draws, budget) ==
    /\ pc[p] = "idle"
    /\ ops < budget
    /\ LET pin == GenPin(draws, memSt.byPinHash)
       IN /\ memSt' = [byId |-> Put(memSt.byId, id, MemSession(pin, SESS_TTL_SEC, now)),
                       byPinHash |-> Put(memSt.byPinHash, PinHash(pin), id)]
          /\ Return(p, [op |-> "create", sid |-> id, pin |-> pin])
    /\ ops' = ops + 1
    /\ UNCHANGED <<now, sessRec, ackRec, setAckSince, sigRec, kvSess, kvPin, peerRec,
                   uniRec, blobs>>

\* getSessionByPin(pin): the id of the session the PIN leads to, or "none"
MemByPin(p, pin, budget) ==
    /\ pc[p] = "idle"
    /\ ops < budget
    /\ Return(p, [op |-> "byPin", pin |-> pin,
                  sid |-> IF PinHash(pin) \notin DOMAIN memSt.byPinHash THEN "none"
                          ELSE IF memSt.byPinHash[PinHash(pin)] \notin DOMAIN memSt.byId
                          THEN "none"
                          ELSE memSt.byPinHash[PinHash(pin)]])
    /\ ops' = ops + 1
    /\ UNCHANGED <<now, sessRec, ackRec, setAckSince, sigRec, kvSess, kvPin, peerRec,
                   uniRec, blobs, memSt>>

\* deleteSession(id)
MemDelete(p, id, budget) ==
    /\ pc[p] = "idle"
    /\ ops < budget
    /\ memSt' = IF id \in DOMAIN memSt.byId
                THEN [byId |-> Del(memSt.byId, id),
                      byPinHash |-> Del(memSt.byPinHash, memSt.byId[id].pinHash)]
                ELSE memSt
    /\ Return(p, [op |-> "delete", sid |-> id, ok |-> id \in DOMAIN memSt.byId])
    /\ ops' = ops + 1
    /\ UNCHANGED <<now, sessRec, ackRec, setAckSince, sigRec, kvSess, kvPin, peerRec,
                   uniRec, blobs>>

\* the sessions cleanupExpired removes
MemExpired(t) == {id \in DOMAIN memSt.byId : t >= memSt.byId[id].expiresAtMs}

\* cleanupExpired
MemCleanup ==
    /\ MemExpired(now) # {}
    /\ memSt' = [byId |-> [id \in (DOMAIN memSt.byId) \ MemExpired(now) |->
                              memSt.byId[id]],
                 byPinHash |-> [h \in (DOMAIN memSt.byPinHash) \
                                     {memSt.byId[id].pinHash : id \in MemExpired(now)} |->
                                   memSt.byPinHash[h]]]
    /\ UNCHANGED <<now, sessRec, ackRec, sigRec, kvSess, kvPin, pc, arg, loc, ret, ops,
                   setAckSince, trace, peerRec, uniRec, blobs>>

\* the clock of the in-memory session store specification
MemTick ==
    /\ now < MaxMemTicks * MemTickMs
    /\ now' = now + MemTickMs
    /\ UNCHANGED <<sessRec, ackRec, sigRec, kvSess, kvPin, pc, arg, loc, ret, ops,
                   setAckSince, trace, peerRec, uniRec, blobs, memSt>>

----------------------------------------------------------------------------
(* A handler that stops between two of its storage operations: the call    *)
(* in flight ends there, what it has stored stays as it is.                *)

Crash(p) ==
    /\ pc[p] # "idle"
    /\ Return(p, [op |-> "crash"])
    /\ UNCHANGED <<now, sessRec, ackRec, sigRec, kvSess, kvPin, ops, setAckSince,
                   peerRec, uniRec, blobs, memSt>>

----------------------------------------------------------------------------
(* The clock and the sweep *)

Tick ==
    /\ now < MaxTicks * TickMs
    /\ now' = now + TickMs
    /\ setAckSince' = (setAckSince /\ ackRec # Null /\ ~(ackRec.expires < now'))
    /\ UNCHANGED <<sessRec, ackRec, pc, arg, loc, ret, ops, trace, sigRec,
                   kvSess, kvPin, peerRec,
                   uniRec, blobs, memSt>>

\* purgeExpired, over the keys of the store
Swept(store, cutoff) ==
    [k \in {j \in DOMAIN store : ~(store[j].expires < cutoff)} |-> store[k]]

\* purgeExpired
Purge ==
    /\ \/ AfterPurge(sessRec, now) # sessRec
       \/ AfterPurge(ackRec, now) # ackRec
       \/ AfterPurge(sigRec, now) # sigRec
       \/ AfterPurge(peerRec, now) # peerRec
       \/ Swept(blobs, now) # blobs
    /\ sessRec' = AfterPurge(sessRec, now)
    /\ ackRec' = AfterPurge(ackRec, now)
    /\ sigRec' = AfterPurge(sigRec, now)
    /\ peerRec' = AfterPurge(peerRec, now)
    /\ blobs' = Swept(blobs, now)
    /\ setAckSince' = (setAckSince /\ ackRec' # Null)
    /\ UNCHANGED <<now, pc, arg, loc, ret, ops, trace, kvSess, kvPin,
                   uniRec, memSt>>

----------------------------------------------------------------------------
(* Specifications *)

\* a fresh process: empty store, no call in flight
Fresh ==
    /\ now = 0
    /\ sessRec = Null
    /\ ackRec = Null
    /\ pc = [p \in Procs |-> "idle"]
    /\ arg = [p \in Procs |-> Null]
    /\ loc = [p \in Procs |-> Null]
    /\ ret = [p \in Procs |-> NoRet]
    /\ ops = 0
    /\ setAckSince = FALSE
    /\ sigRec = Null
    /\ kvSess = Null
    /\ kvPin = Null
    /\ peerRec = Null
    /\ uniRec = Null
    /\ blobs = <<>>
    /\ memSt = [byId |-> <<>>, byPinHash |-> <<>>]

Init ==
    /\ Fresh
    /\ trace = [on |-> FALSE, log |-> <<>>]

\* the same, with the results of the calls being recorded
InitRecorded ==
    /\ Fresh
    /\ trace = [on |-> TRUE, log |-> <<>>]

PushInputs == (0..(MaxTotal - 1)) \X (1..MaxTotal) \X Data

PushFrom(inputs, p, budget) ==
    \/ \E in \in inputs :
        \/ PushInvalid(p, in[1], in[2], in[3], budget)
        \/ PushReject(p, in[1], in[2], in[3], budget)
        \/ PushRead(p, in[1], in[2], in[3], budget)
    \/ PushWrite(p)

Push(p, budget) == PushFrom(PushInputs, p, budget)

Receive(p, budget) ==
    \/ NextAbsent(p, budget) \/ NextRead(p, budget)
    \/ NextStale(p) \/ NextDoneAgain(p) \/ NextAcked(p)
    \/ NextCleanSession(p) \/ NextCleanAck(p)
    \/ NextChunkOut(p) \/ NextFinish(p) \/ NextWaiting(p)

SetAck(p, budget) ==
    AckWrite(p, budget) \/ AckNoSession(p) \/ AckRead(p) \/ AckUpdate(p)

GetAck(p, budget) ==
    GetAckHit(p, budget) \/ GetAckMiss(p, budget) \/ GetAckSession(p)

Handler(p, budget) ==
    \/ Push(p, budget)
    \/ Receive(p, budget)
    \/ SetAck(p, budget)
    \/ GetAck(p, budget)

\* the payload plays no part in the bookkeeping: one value
RelayInputs == {in \in PushInputs : in[3] = "A"}

\* one client calling the relay, one call after the other
RelaySeqNext ==
    \/ Handler(1, MaxOpsSeq)
    \/ Tick
    \/ Purge

SpecRelaySeq == Init /\ [][RelaySeqNext]_vars

\* one client sending, receiving and acknowledging a transfer, call after call
AckedNext ==
    \/ PushFrom(RelayInputs, 1, AckedOps)
    \/ Receive(1, AckedOps)
    \/ SetAck(1, AckedOps)
    \/ Tick
    \/ Purge

SpecAcked == Init /\ [][AckedNext]_vars

\* the steps that follow an await of a call in flight: storage operations
\* complete
Completes(p) ==
    \/ PushWrite(p)
    \/ NextStale(p) \/ NextDoneAgain(p) \/ NextAcked(p)
    \/ NextCleanSession(p) \/ NextCleanAck(p)
    \/ NextChunkOut(p) \/ NextFinish(p) \/ NextWaiting(p)
    \/ AckNoSession(p) \/ AckRead(p) \/ AckUpdate(p)

\* the same client, every call in flight running to its end; when the next
\* call arrives, and with it the sweep the send handler starts, is up to
\* the clients
SpecAckedFair == Init /\ [][AckedNext]_vars /\ WF_vars(Completes(1))

\* one client on the unidirectional relay, call after call, the results
\* being recorded
UniNext1 ==
    \/ \E in \in RelayInputs : UniPush(1, in[1], in[2], in[3], UniOps)
    \/ UniNext(1, UniOps)
    \/ UniDelete(1, UniOps)
    \/ UniTick

SpecUni == InitRecorded /\ [][UniNext1]_vars

\* one client working on the sessions of several pairs, call after call:
\* invite codes and password hashes are any strings
Pins == {<<"a">>, <<"a", ":", "b">>}

Hashes == {<<"c">>, <<"b", ":", "c">>}

PairsNext ==
    \/ \E ic \in Pins, ph \in Hashes :
          \/ \E in \in RelayInputs : KeyedPush(1, ic, ph, in[1], in[2], in[3], PairOps)
          \/ KeyedNext(1, ic, ph, PairOps)
          \/ KeyedAck(1, ic, ph, PairOps)
    \/ Tick
    \/ Purge

SpecPairs == Init /\ [][PairsNext]_vars

\* sessions being created, looked up by PIN and deleted in the in-memory
\* session store; the n-th call creates the session of id n, a PIN has one
\* digit out of two
PinSpace == {<<1>>, <<2>>}

MemNext ==
    \/ \E draws \in [1..(GEN_PIN_TRIES + 1) -> PinSpace] :
          MemCreate(1, ops + 1, draws, MemOps)
    \/ \E pin \in PinSpace : MemByPin(1, pin, MemOps)
    \/ \E id \in 1..MemOps : MemDelete(1, id, MemOps)
    \/ MemCleanup
    \/ MemTick

SpecMem == Init /\ [][MemNext]_vars

\* one client creating an envelope session, posting and fetching envelopes,
\* pushing chunks and acknowledging, call after call; a call may stop
\* between two of its storage operations
CrashNext ==
    \/ Create(1, CrashOps) \/ CreateSet(1)
    \/ \E m \in {"postOffer", "postAnswer", "getAnswer"} :
          \/ EnvGone(1, m, CrashOps)
          \/ EnvGet(1, m, "E1", CrashOps)
    \/ AliveExpired(1)
    \/ PostReject(1) \/ PostAccept(1)
    \/ GetAnswerNotSet(1) \/ GetAnswerAgain(1) \/ GetAnswerFirst(1)
    \/ SaveTtl(1) \/ SaveSetPost(1) \/ SaveSetGet(1) \/ ExpireSoon(1)
    \/ PushFrom(RelayInputs, 1, CrashOps)
    \/ SetAck(1, CrashOps)
    \/ Crash(1)
    \/ EnvTick

SpecCrash == Init /\ [][CrashNext]_vars

\* getChunkTTL applied to every totalChunks a push may carry, and to none
TtlInit ==
    /\ \E n \in {NoTotal} \cup (1..MAX_TOTAL_CHUNKS) :
          arg = [p \in Procs |-> [total |-> n]]
    /\ now = 0 /\ sessRec = Null /\ ackRec = Null
    /\ pc = [p \in Procs |-> "idle"]
    /\ loc = [p \in Procs |-> Null]
    /\ ret = [p \in Procs |-> NoRet]
    /\ ops = 0 /\ setAckSince = FALSE
    /\ sigRec = Null /\ kvSess = Null /\ kvPin = Null /\ peerRec = Null
    /\ uniRec = Null /\ blobs = <<>>
    /\ memSt = [byId |-> <<>>, byPinHash |-> <<>>]
    /\ trace = [on |-> FALSE, log |-> <<>>]

TtlNext ==
    /\ ret[1] = NoRet
    /\ ret' = [ret EXCEPT ![1] = [op |-> "ttl", total |-> arg[1].total,
                                  ttl |-> GetChunkTTL(arg[1].total)]]
    /\ UNCHANGED <<now, sessRec, ackRec, sigRec, kvSess, kvPin, peerRec, uniRec, blobs,
                   memSt, pc, arg, loc, ops, setAckSince, trace>>

SpecTtl == TtlInit /\ [][TtlNext]_vars

\* a sender and a receiver at work on one session at the same time, the
\* results being recorded; the clock stands still and nobody acknowledges,
\* so nothing expires and nextChunk never takes its stale or acknowledged
\* branch
DuplexNext ==
    \/ PushFrom(RelayInputs, 1, DuplexOps)
    \/ NextAbsent(2, DuplexOps) \/ NextRead(2, DuplexOps)
    \/ NextDoneAgain(2) \/ NextChunkOut(2) \/ NextFinish(2) \/ NextWaiting(2)

SpecDuplex == InitRecorded /\ [][DuplexNext]_vars

\* two clients, each pushing and receiving on the one session, the calls
\* overlapping in every way and their results being recorded
MixedNext ==
    \E p \in Procs :
        \/ PushFrom(RelayInputs, p, DuplexOps)
        \/ NextAbsent(p, DuplexOps) \/ NextRead(p, DuplexOps)
        \/ NextDoneAgain(p) \/ NextChunkOut(p) \/ NextFinish(p) \/ NextWaiting(p)

SpecMixed == InitRecorded /\ [][MixedNext]_vars

\* two clients pushing into the same session at the same time
PushRaceNext == \E p \in Procs : Push(p, MaxOps)

SpecPushRace == Init /\ [][PushRaceNext]_vars

\* a sender and a receiver on the same session: the first client makes
\* SoloOps calls, then a second client runs alongside it
RelayNext ==
    \/ PushFrom(RelayInputs, 1, SoloOps + 1)
    \/ Receive(1, SoloOps + 1)
    \/ SetAck(1, SoloOps + 1)
    \/ /\ ops >= SoloOps
       /\ PushFrom(RelayInputs, 2, SoloOps + 1) \/ Receive(2, SoloOps + 1)
    \/ Tick

SpecRelay == Init /\ [][RelayNext]_vars

\* peers queueing signals for one peer who polls from two connections; the
\* n-th call carries payload n, so no two messages are alike
Queue(p, budget) ==
    \/ \E from \in {"", "peerA"}, payload \in {0, ops + 1} :
          \/ QueueInvalid(p, from, payload, budget)
          \/ QueueRead(p, from, payload, budget)
    \/ QueueWrite(p)

Poll(p, budget) == PollEmpty(p, budget) \/ PollRead(p, budget) \/ PollDelete(p)

SignalNext ==
    \/ \E p \in Procs : Queue(p, SigOps) \/ Poll(p, SigOps)
    \/ SigTick
    \/ Purge

SpecSignal == Init /\ [][SignalNext]_vars

\* peers queueing signals for one peer who polls, the calls overlapping and
\* their results being recorded; the clock stands still, so no signal
\* expires
SignalRecNext == \E p \in Procs : Queue(p, SigOps) \/ Poll(p, SigOps)

SpecSignalRec == InitRecorded /\ [][SignalRecNext]_vars

\* one peer queueing and polling, call after call, on a blob store whose
\* delete may fail
SignalFaultyNext ==
    \/ Queue(1, SigOps)
    \/ Poll(1, SigOps)
    \/ PollDeleteFails(1)
    \/ SigTick
    \/ Purge

SpecSignalFaulty == Init /\ [][SignalFaultyNext]_vars

\* two peers registering and looking up one invite code; the other codes
\* are malformed and never reach the store
GoodCode == <<"U", "v", "9", "W", "x", "1", "Y", "z">>

InviteCodes ==
    {GoodCode, <<>>, <<"a", "b", "c">>, <<"a", "b", "c", "-", "e", "f", "g", "h">>}

Register(p, budget) ==
    \/ \E ic \in InviteCodes, peer \in {"", "p1", "p2"} :
          \/ RegisterInvalid(p, ic, peer, budget)
          \/ RegisterReject(p, ic, peer, budget)
          \/ RegisterRead(p, ic, peer, budget)
    \/ RegisterWrite(p)

Lookup(p, budget) ==
    \E ic \in {GoodCode, <<>>} :
        LookupInvalid(p, ic, budget) \/ LookupRead(p, ic, budget)

PeerNext ==
    \/ \E p \in Procs : Register(p, PeerOps) \/ Lookup(p, PeerOps)
    \/ PeerTick
    \/ Purge

SpecPeer == Init /\ [][PeerNext]_vars

\* the envelope handshake of one session: the first client creates it, a
\* second client joins after EnvSolo calls
EnvRequests == {"postOffer", "postAnswer", "getAnswer"} \X {"E1", "bad"}

Envelope(p, budget) ==
    \/ Create(p, budget) \/ CreateSet(p)
    \/ \E rq \in EnvRequests :
          \/ EnvBadId(p, rq[1], budget)
          \/ EnvGone(p, rq[1], budget)
          \/ EnvGet(p, rq[1], rq[2], budget)
    \/ AliveExpired(p)
    \/ PostReject(p) \/ PostAccept(p)
    \/ GetAnswerNotSet(p) \/ GetAnswerAgain(p) \/ GetAnswerFirst(p)
    \/ SaveTtl(p) \/ SaveSetPost(p) \/ SaveSetGet(p) \/ ExpireSoon(p)

Resolve(p, budget) ==
    \/ ResolveBadPin(p, budget) \/ ResolveGet(p, budget)
    \/ ResolveMiss(p) \/ ResolveDel(p)
    \/ ResolveGone(p) \/ ResolveSess(p)
    \/ ResolveExpired(p) \/ ResolveOk(p)

EnvelopeNext ==
    \/ Envelope(1, EnvOps) \/ Resolve(1, EnvOps)
    \/ /\ ops >= EnvSolo
       /\ Envelope(2, EnvOps) \/ Resolve(2, EnvOps)
    \/ EnvTick

SpecEnvelope == Init /\ [][EnvelopeNext]_vars

\* the same handshake with the second client also deleting the session
LateSaveNext ==
    \/ Envelope(1, EnvOps)
    \/ /\ ops >= EnvSolo
       /\ Envelope(2, EnvOps) \/ DeleteBadId(2, EnvOps) \/ EnvDelete(2, EnvOps)
    \/ EnvTick

SpecLateSave == Init /\ [][LateSaveNext]_vars

\* requests to pushChunk, well-formed and malformed in every way the check
\* tells apart
GoodRequests ==
    {[pin |-> Str(0), passwordHash |-> Str(0), chunkIndex |-> Num(i),
      totalChunks |-> Num(MaxTotal), data |-> Text("A", n)] :
        i \in 0..(MaxTotal - 1), n \in {1, MAX_DATA_LEN}}

GoodRequest == CHOOSE in \in GoodRequests : in.chunkIndex.val = 0 /\ in.data.len = 1

BadRequests ==
    {[GoodRequest EXCEPT !.pin = Missing],
     [GoodRequest EXCEPT !.passwordHash = Missing],
     [GoodRequest EXCEPT !.chunkIndex = Str(0)],
     [GoodRequest EXCEPT !.totalChunks = Str(MaxTotal)],
     [GoodRequest EXCEPT !.data = Missing],
     [GoodRequest EXCEPT !.data = Text("A", MAX_DATA_LEN + 1)],
     [GoodRequest EXCEPT !.chunkIndex = Num(0 - 1)],
     [GoodRequest EXCEPT !.chunkIndex = Num(MaxTotal)],
     [GoodRequest EXCEPT !.totalChunks = Num(0)],
     [GoodRequest EXCEPT !.chunkIndex = Num(0 - 1), !.totalChunks = Num(0)],
     [GoodRequest EXCEPT !.totalChunks = Num(MAX_TOTAL_CHUNKS + 1)]}

\* one client pushing such requests, call after call
PushInputNext ==
    \/ \E in \in GoodRequests \cup BadRequests :
          \/ PushChunkInvalid(1, in, InputOps)
          \/ PushChunkChecked(1, in, InputOps)
    \/ PushWrite(1)
    \/ Tick

SpecPushInput == Init /\ [][PushInputNext]_vars

\* one client working on one envelope session, request after request, the
\* answers being recorded
SessRequests == {"postOffer", "postAnswer", "getOffer", "getAnswer"} \X {"E1"}

SessionSeqNext ==
    \/ Create(1, SessOps) \/ CreateSet(1)
    \/ \E rq \in SessRequests :
          \/ EnvBadId(1, rq[1], SessOps)
          \/ EnvGone(1, rq[1], SessOps)
          \/ EnvGet(1, rq[1], rq[2], SessOps)
    \/ AliveExpired(1)
    \/ PostReject(1) \/ PostAccept(1)
    \/ GetOfferNotSet(1) \/ GetOfferOk(1)
    \/ GetAnswerNotSet(1) \/ GetAnswerAgain(1) \/ GetAnswerFirst(1)
    \/ SaveTtl(1) \/ SaveSetPost(1) \/ SaveSetGet(1) \/ ExpireSoon(1)
    \/ DeleteBadId(1, SessOps) \/ EnvDelete(1, SessOps)
    \/ Resolve(1, SessOps)
    \/ EnvTick

SpecSessionSeq == InitRecorded /\ [][SessionSeqNext]_vars

\* the round trip: a sender pushes every index of a transfer once, in any
\* order, then the receiver polls until the transfer is done
PushedSoFar == {trace.log[k].idx : k \in {j \in 1..Len(trace.log) : trace.log[j].op = "push"}}

Receiving == \E k \in 1..Len(trace.log) : trace.log[k].op = "next"

RoundTripInputs == (0..(MaxChunks - 1)) \X (1..MaxChunks) \X Data

\* the sender calls pushChunk with an index of the transfer not pushed yet
RoundTripPush ==
    \E in \in RoundTripInputs :
        /\ pc[1] = "idle" =>
              /\ ~Receiving
              /\ in[1] < in[2]
              /\ in[1] \notin PushedSoFar
              /\ trace.log # <<>> => in[2] = trace.log[1].total
        /\ PushFrom({in}, 1, 2 * MaxChunks + 1)

\* the receiver calls nextChunk once everything is pushed, until one call
\* more than there are chunks has returned
RoundTripReceive ==
    /\ pc[1] = "idle" =>
          /\ trace.log # <<>>
          /\ Cardinality(PushedSoFar) = trace.log[1].total
          /\ Len(trace.log) < 2 * trace.log[1].total + 1
    /\ Receive(1, 2 * MaxChunks + 1)

RoundTripNext == RoundTripPush \/ RoundTripReceive

SpecRoundTrip == InitRecorded /\ [][RoundTripNext]_vars

----------------------------------------------------------------------------
(* Racing pushers (SpecPushRace) *)

\* both clients have made one call each, both calls were pushes, both returned
BothPushed ==
    /\ \A p \in Procs : pc[p] = "idle" /\ ret[p].op = "push"
    /\ ops = NProc

\* C1 as stated: when pushes of distinct indices of one transfer have run
\* side by side and have all returned success, every pushed index is in
\* delivered or in chunks of the stored session: no chunk is lost.
C1_NoChunkLost ==
    (/\ BothPushed
     /\ \A p \in Procs : ret[p].error = "none"
     /\ \A p, q \in Procs : ret[p].total = ret[q].total
     /\ \A p, q \in Procs : p # q => ret[p].idx # ret[q].idx)
    => /\ sessRec # Null
       /\ \A p \in Procs :
             ret[p].idx \in (DOMAIN sessRec.chunks) \cup Delivered(sessRec)

\* C2 as stated: of pushes that carry the same index and different data and
\* run side by side, at most one returns success and every other one
\* returns duplicate_chunk.
C2_OneWinner ==
    (/\ BothPushed
     /\ \A p, q \in Procs : ret[p].total = ret[q].total /\ ret[p].idx = ret[q].idx
     /\ \A p, q \in Procs : p # q => ret[p].data # ret[q].data
     /\ \A p \in Procs : PushValid(ret[p].idx, ret[p].total))
    => /\ Cardinality({p \in Procs : ret[p].error = "none"}) <= 1
       /\ \A p \in Procs : ret[p].error \in {"none", "duplicate_chunk"}

----------------------------------------------------------------------------
(* Session bookkeeping (SpecRelay) *)

\* C3: in the stored session, delivered and the keys of chunks are disjoint,
\* every index in either lies in 0..totalChunks-1, and delivered is no longer
\* than totalChunks, however pushes and receives interleave.
C3_Bookkeeping ==
    sessRec # Null =>
        /\ Delivered(sessRec) \cap DOMAIN sessRec.chunks = {}
        /\ \A i \in Delivered(sessRec) \cup DOMAIN sessRec.chunks :
              i >= 0 /\ i < sessRec.totalChunks
        /\ Len(sessRec.delivered) <= sessRec.totalChunks

\* C3 witness: a push and a receive are in flight together on a session of
\* which a chunk has been delivered
C3_Witness ==
    /\ sessRec # Null
    /\ sessRec.delivered # <<>>
    /\ \E p, q \in Procs : pc[p] = "push_write" /\ pc[q] = "next_chk"

----------------------------------------------------------------------------
(* Round trip (SpecRoundTrip) *)

\* the payload the sender pushed for index i
SentData(i) ==
    LET k == CHOOSE j \in 1..Len(trace.log) :
                 trace.log[j].op = "push" /\ trace.log[j].idx = i
    IN trace.log[k].data

\* C5: after indices 0..N-1 have been pushed once each, in any order, the
\* next N receives return chunkAvailable with the pushed payloads in
\* ascending index order, and the receive after them returns done.
C5_RoundTrip ==
    trace.log # <<>> =>
        LET N == trace.log[1].total
        IN \A k \in 1..Len(trace.log) :
              IF k <= N THEN trace.log[k].op = "push" /\ trace.log[k].error = "none"
              ELSE IF k <= 2 * N
                   THEN trace.log[k] =
                            NextRet("chunkAvailable", k - N - 1, N, SentData(k - N - 1))
                   ELSE trace.log[k] = PlainRet("done")

\* C5 witness: a transfer of several chunks, pushed starting with a higher
\* index, has been received to the final done
C5_Witness ==
    /\ trace.log # <<>>
    /\ trace.log[1].total >= 2
    /\ trace.log[1].idx # 0
    /\ Len(trace.log) = 2 * trace.log[1].total + 1
    /\ trace.log[Len(trace.log)].op = "next"

----------------------------------------------------------------------------
(* Envelope handshake (SpecEnvelope) *)

\* C8 as stated: of the resolve requests for the PIN of a session, together
\* or one after the other, at most one is sent the session id.
C8_ResolveOnce ==
    \A p, q \in Procs :
        (/\ p # q
         /\ pc[p] = "idle" /\ ret[p].op = "resolve"
         /\ pc[q] = "idle" /\ ret[q].op = "resolve")
        => ~(ret[p].status = "ok" /\ ret[q].status = "ok")

\* C9 as stated: once the answer is posted, at most one GET answer request
\* is sent the envelope, however the requests follow or overlap each other.
C9_AnswerOnce ==
    \A p, q \in Procs :
        (/\ p # q
         /\ pc[p] = "idle" /\ ret[p].op = "getAnswer"
         /\ pc[q] = "idle" /\ ret[q].op = "getAnswer")
        => ~(ret[p].status = "envelope" /\ ret[q].status = "envelope")

----------------------------------------------------------------------------
(* Signal mailbox (SpecSignal) *)

\* C10 as stated: of two polls of the same peer running side by side, one
\* gets the queued messages and the other gets none: no message is returned
\* by both polls.
C10_NoMessageTwice ==
    \A p, q \in Procs :
        (/\ p # q
         /\ pc[p] = "idle" /\ ret[p].op = "poll"
         /\ pc[q] = "idle" /\ ret[q].op = "poll")
        => \A i \in 1..Len(ret[p].messages), j \in 1..Len(ret[q].messages) :
              ret[p].messages[i] # ret[q].messages[j]

----------------------------------------------------------------------------
(* Delivery order (SpecRelaySeq) *)

Ascending(seq) == \A k \in 1..(Len(seq) - 1) : seq[k] < seq[k + 1]

\* C4 as stated: the indices handed out by successive chunkAvailable results
\* of one session (the delivered list, in delivery order) are strictly
\* ascending, whatever the order of pushes and receives.
C4_DeliveredAscending ==
    sessRec # Null => Ascending(sessRec.delivered)

\* C4 amended: a chunkAvailable result carries the smallest index that was
\* pending in the session the call read; a lower index pushed later is
\* handed out later.
C4_SmallestPendingFirst ==
    [][\A p \in Procs :
          (/\ pc[p] = "next_chk"
           /\ pc'[p] = "idle"
           /\ ret'[p].op = "next"
           /\ ret'[p].status = "chunkAvailable")
          => /\ Pending(loc[p], ret'[p].idx)
             /\ \A j \in 0..(ret'[p].idx - 1) : ~Pending(loc[p], j)
             /\ sessRec'.delivered = Append(loc[p].delivered, ret'[p].idx)]_vars

\* C4 witness: index 1 was handed out before index 0, and 0 by the last call
C4_Witness ==
    /\ sessRec # Null
    /\ sessRec.delivered = <<1, 0>>
    /\ ret[1].op = "next"
    /\ ret[1].status = "chunkAvailable"
    /\ ret[1].idx = 0

----------------------------------------------------------------------------
(* Acknowledgment (SpecRelaySeq) *)

\* what a getAcknowledged call answers when it runs now
GetAckNow == GetAckResult(ReadStorage(ackRec, now), ReadStorage(sessRec, now))

\* C6 as stated: the receive that destroys a completed, acknowledged session
\* leaves the acknowledgment in place: while the ack record has not expired,
\* getAck still answers true after that receive has returned.
C6_AckSurvivesCleanup ==
    [][\A p \in Procs :
          (/\ pc[p] = "next_delack"
           /\ pc'[p] = "idle"
           /\ ReadStorage(ackRec, now) # Null)
          => GetAckResult(ReadStorage(ackRec', now'), ReadStorage(sessRec', now'))]_vars

\* C7 as stated: between calls, getAck answers true exactly when a setAck
\* has written the ack record since that record was last destroyed (by the
\* cleanup, by expiry or by the sweep).
C7_AckIffSetAck ==
    pc[1] = "idle" => (GetAckNow <=> setAckSince)

\* C7 amended: between calls, getAck answers true exactly when a setAck has
\* written the ack record since its last destruction, or the live session
\* still carries the acknowledged flag an earlier setAck left in it.
C7_AckIffSetAckOrFlag ==
    pc[1] = "idle" =>
        (GetAckNow <=> (setAckSince \/ SessAcked(ReadStorage(sessRec, now))))

\* C7 witness: the ack record has expired, the session flag still answers
C7_Witness ==
    /\ pc[1] = "idle"
    /\ ackRec # Null
    /\ ackRec.expires < now
    /\ ~setAckSince
    /\ GetAckNow

----------------------------------------------------------------------------
(* The signal mailbox when a delete fails (SpecSignalFaulty) *)

\* C11: when the delete of the mailbox fails after pollSignals has read it
\* (the mailbox is still stored when the poll returns), the poll returns an
\* empty message list.
C11_FailedDeleteReturnsEmpty ==
    [][\A p \in Procs :
          (pc[p] = "poll_del" /\ pc'[p] = "idle" /\ sigRec' # Null)
              => ret'[p].messages = <<>>]_vars

----------------------------------------------------------------------------
(* Draining the mailbox (SpecSignal) *)

\* the unexpired messages the store holds for the peer, oldest first
StoredSignals ==
    IF ReadStorage(sigRec, now) = Null THEN <<>>
    ELSE Unexpired(sigRec.messages, now)

\* C12: the mailbox holds the unexpired signals queued since the last poll in
\* the order they were queued, and a poll returns all of them and leaves the
\* mailbox empty: a queueSignal that returns has appended its message to
\* what the store held, and a pollSignals that returns has handed out every
\* unexpired message the store held, oldest first, and left nothing stored.
C12_PollDrainsAll ==
    [][\A p \in Procs :
          /\ (pc[p] = "queue_write" /\ pc'[p] = "idle")
                => /\ sigRec' # Null
                   /\ IF sigRec' = Null THEN FALSE
                      ELSE sigRec'.messages =
                             Append(StoredSignals,
                                    NewMessage(arg[p].from, "offer", arg[p].payload, now))
          /\ (pc[p] = "poll_del" /\ pc'[p] = "idle")
                => /\ ret'[p].messages =
                         [k \in 1..Len(StoredSignals) |-> Handout(StoredSignals[k])]
                   /\ sigRec' = Null]_vars

----------------------------------------------------------------------------
(* Holding an invite code (SpecPeer) *)

\* the stored registration is within its time to live
PeerLive == IF peerRec = Null THEN FALSE ELSE now < peerRec.expires

\* process p returns from a registerPeer call with well-formed input
RegisterReturns(p) ==
    /\ pc'[p] = "idle"
    /\ ret'[p].op = "register"
    /\ pc[p] = "reg_write" \/ (pc[p] = "idle" /\ ret'[p] # ret[p])
    /\ ret'[p].error \notin {"missing_fields", "invalid_invite_code"}

\* C13: while the registration of the invite code by a peer is within its
\* 30 s, a registerPeer call of another peer for that code is not let
\* through to the write, returns invite_code_in_use and leaves the stored
\* mapping as it is, a lookupPeer still answers the registered peer, and a
\* registerPeer call of the registered peer itself is never refused and
\* writes the registration anew with a fresh 30 s.
C13_InviteCodeHeld ==
    [][PeerLive =>
        \A p \in Procs :
          /\ (pc[p] = "idle" /\ pc'[p] = "reg_write")
                => arg'[p].peerId = peerRec.peerId
          /\ (pc[p] = "idle" /\ RegisterReturns(p)
                  /\ ret'[p].peerId # peerRec.peerId)
                => (ret'[p].error = "invite_code_in_use" /\ peerRec' = peerRec)
          /\ (RegisterReturns(p) /\ ret'[p].peerId = peerRec.peerId)
                => /\ ret'[p].status = "registered"
                   /\ peerRec' = NewPeer(peerRec.peerId, now)
          /\ (pc[p] = "idle" /\ pc'[p] = "idle" /\ ret'[p] # ret[p]
                  /\ ret'[p].op = "lookup" /\ ret'[p].error # "missing_invite_code")
                => ret'[p] = LookupRet(peerRec.peerId, "none")]_vars

\* C13 happens: p1 holds the code through a registration written after the
\* clock has moved, p2 has been refused, p1 has been registered
C13_Witness ==
    /\ PeerLive
    /\ peerRec.peerId = "p1"
    /\ peerRec.created > 0
    /\ \E p, q \in Procs :
          /\ pc[p] = "idle" /\ ret[p].op = "register"
          /\ ret[p].peerId = "p2" /\ ret[p].error = "invite_code_in_use"
          /\ pc[q] = "idle" /\ ret[q].op = "register"
          /\ ret[q].peerId = "p1" /\ ret[q].status = "registered"

----------------------------------------------------------------------------
(* Offer before answer (SpecEnvelope) *)

\* C14: a stored envelope session that has an answer has an offer, and a
\* POST answer with a well-formed envelope that finds the session alive and
\* read it without an offer is answered offer_not_set and stores nothing.
C14_OfferBeforeAnswer ==
    [][/\ IF kvSess' = Null THEN TRUE
          ELSE kvSess'.val.answerEnvelope # "none"
                  => kvSess'.val.offerEnvelope # "none"
       /\ \A p \in Procs :
            (/\ pc[p] = "alive_ttl"
             /\ pc'[p] # pc[p]
             /\ arg[p].m = "postAnswer"
             /\ MemTtl(kvSess, now) > 0
             /\ ValidateEnvelope(arg[p].env) = "none"
             /\ loc[p].offerEnvelope = "none")
            => /\ ret'[p] = EnvRet("postAnswer", "offer_not_set", "none")
               /\ kvSess' = kvSess]_vars

\* C14 happens: an answer is stored, and a POST answer was refused for want
\* of an offer
C14_Witness ==
    /\ kvSess # Null
    /\ kvSess.val.answerEnvelope # "none"
    /\ \E p \in Procs :
          pc[p] = "idle" /\ ret[p] = EnvRet("postAnswer", "offer_not_set", "none")

----------------------------------------------------------------------------
(* One offer, one answer (SpecEnvelope) *)

\* C15 as stated: however the requests follow or overlap each other, at most
\* one POST offer and at most one POST answer of a session is accepted: no
\* two requests of the same kind are both answered 200.
C15_AcceptedOnce ==
    \A p, q \in Procs :
        (/\ p # q
         /\ pc[p] = "idle" /\ pc[q] = "idle"
         /\ ret[p].op \in {"postOffer", "postAnswer"}
         /\ ret[q].op = ret[p].op)
        => ~(ret[p].status = "ok" /\ ret[q].status = "ok")

----------------------------------------------------------------------------
(* Deleting an envelope session (SpecSessionSeq) *)

\* the k-th answer recorded is that of a DELETE of the session
Deleted(k) == trace.log[k] = EnvRet("delete", "204", "S1")

C17_DeleteRemovesPin ==
    (\E k \in 1..Len(trace.log) : Deleted(k)) => kvPin = Null

----------------------------------------------------------------------------
(* The size of a transfer (SpecPushRace) *)

\* process p returns at this step from a pushChunk call that the session it
\* read has refused
PushRefused(p) ==
    /\ pc[p] = "idle"
    /\ pc'[p] = "idle"
    /\ ret'[p] # ret[p]
    /\ ret'[p].op = "push"
    /\ ret'[p].error \notin {"none", "invalid_chunk"}

\* C18 as stated: while a relay session lives, its stored totalChunks stays
\* what the push that created it set; a push with another totalChunks is not
\* let through to the write, returns totalChunks_mismatch and leaves the
\* stored session as it is.
C18_TotalChunksFixed ==
    [][ReadStorage(sessRec, now) # Null =>
        /\ sessRec' # Null => sessRec'.totalChunks = sessRec.totalChunks
        /\ \A p \in Procs :
              /\ (pc[p] = "idle" /\ pc'[p] = "push_write")
                    => arg'[p].total = sessRec.totalChunks
              /\ (PushRefused(p) /\ ret'[p].total # sessRec.totalChunks)
                    => /\ ret'[p].error = "totalChunks_mismatch"
                       /\ sessRec' = sessRec]_vars

----------------------------------------------------------------------------
(* Pushing an index twice (SpecRelay) *)

\* C19: a push of an index that the live stored session holds, waiting in
\* chunks or listed in delivered, is not let through to the write; it
\* returns duplicate_chunk, and the stored session, the data waiting at that
\* index included, is left as it is.
C19_DuplicateRejected ==
    [][ReadStorage(sessRec, now) # Null =>
        \A p \in Procs :
          /\ (pc[p] = "idle" /\ pc'[p] = "push_write")
                => /\ arg'[p].idx \notin DOMAIN sessRec.chunks
                   /\ arg'[p].idx \notin Delivered(sessRec)
          /\ (/\ PushRefused(p)
              /\ ret'[p].total = sessRec.totalChunks
              /\ \/ ret'[p].idx \in DOMAIN sessRec.chunks
                 \/ ret'[p].idx \in Delivered(sessRec))
                => /\ ret'[p].error = "duplicate_chunk"
                   /\ sessRec' = sessRec]_vars

\* C19 happens: a push was refused as a duplicate of a chunk that is still
\* waiting, while another chunk has already been handed out
C19_Witness ==
    /\ sessRec # Null
    /\ sessRec.delivered # <<>>
    /\ \E p \in Procs :
          /\ pc[p] = "idle"
          /\ ret[p].op = "push"
          /\ ret[p].error = "duplicate_chunk"
          /\ ret[p].idx \in DOMAIN sessRec.chunks

----------------------------------------------------------------------------
(* Malformed pushes (SpecPushInput) *)

\* the request is malformed in one of the ways the claim lists
Malformed(in) ==
    \/ in.chunkIndex.type # "number" \/ in.totalChunks.type # "number"
    \/ in.pin.type # "string" \/ in.passwordHash.type # "string"
    \/ in.data.type # "string"
    \/ in.chunkIndex.val < 0
    \/ in.chunkIndex.val >= in.totalChunks.val
    \/ in.totalChunks.val < 1
    \/ in.totalChunks.val > 2048
    \/ in.data.len > 48 * 1024

\* C20: a push with malformed input returns invalid_chunk and changes
\* nothing in the store, a session being stored for the key or not: a
\* malformed request can never go on to the store, whenever a call can be
\* made it can return invalid_chunk, and the step at which a push returns
\* invalid_chunk leaves every stored record as it was.
C20_InvalidChunkNoChange ==
    [][/\ \A in \in GoodRequests \cup BadRequests :
            Malformed(in) =>
              /\ ~ENABLED PushChunkChecked(1, in, InputOps)
              /\ (pc[1] = "idle" /\ ops < InputOps)
                    => ENABLED PushChunkInvalid(1, in, InputOps)
       /\ (/\ pc[1] = "idle" /\ pc'[1] = "idle"
           /\ ops' = ops + 1
           /\ ret'[1].op = "push"
           /\ ret'[1].error = "invalid_chunk")
            => /\ sessRec' = sessRec /\ ackRec' = ackRec /\ sigRec' = sigRec
               /\ peerRec' = peerRec /\ kvSess' = kvSess /\ kvPin' = kvPin]_vars

\* C20 happens: with a session stored and a chunk waiting in it, a push has
\* returned invalid_chunk for data that is too long
C20_Witness ==
    /\ sessRec # Null
    /\ DOMAIN sessRec.chunks # {}
    /\ pc[1] = "idle"
    /\ ret[1].op = "push"
    /\ ret[1].error = "invalid_chunk"
    /\ ret[1].data.len > MAX_DATA_LEN

----------------------------------------------------------------------------
(* A completed session (SpecRelay) *)

\* the relay sessions there are: the stored one and the snapshots the calls
\* in flight work on
RelaySessions ==
    {s \in {sessRec} \cup {loc[p] : p \in {q \in Procs :
                pc[q] \in {"push_write", "next_chk", "next_del", "ack_upd"}}} :
        s # Null}

\* C21: a relay session that has completed = true has an empty chunks map
\* and as many delivered indices as its totalChunks, however pushes,
\* receives and acknowledgments interleave.
C21_CompletedIsEmpty ==
    \A s \in RelaySessions :
        s.completed => (DOMAIN s.chunks = {} /\ Len(s.delivered) = s.totalChunks)

\* C21 happens: a transfer of two chunks has been handed out and completed
C21_Witness ==
    /\ sessRec # Null
    /\ sessRec.completed
    /\ sessRec.totalChunks = 2
    /\ Len(sessRec.delivered) = 2

----------------------------------------------------------------------------
(* The end of an acknowledged transfer (SpecAcked) *)

\* process p starts a nextChunk call at this step
StartsReceive(p) ==
    /\ pc[p] = "idle"
    /\ ops' = ops + 1
    /\ pc'[p] = "next_chk" \/ (pc'[p] = "idle" /\ ret'[p].op = "next")

----------------------------------------------------------------------------
(* Receiving before anything is pushed (SpecRelaySeq) *)

\* C23: a nextChunk call on a key for which no live session is stored
\* returns expired and leaves no record; a well-formed push that finds no
\* session is accepted whatever its totalChunks, and what it stores is a
\* new session with that totalChunks, holding its chunk and nothing else.
C23_NoPlaceholder ==
    [][\A p \in Procs :
          /\ (StartsReceive(p) /\ ReadStorage(sessRec, now) = Null)
                => /\ pc'[p] = "idle"
                   /\ ret'[p] = PlainRet("expired")
                   /\ sessRec' = Null
          /\ (/\ pc[p] = "idle" /\ ops' = ops + 1
               /\ (pc'[p] = "push_write" \/ (pc'[p] = "idle" /\ ret'[p].op = "push"))
               /\ ReadStorage(sessRec, now) = Null
               /\ (pc'[p] = "idle" => ret'[p].error # "invalid_chunk"))
                => (pc'[p] = "push_write" /\ loc'[p] = Null)
          /\ (pc[p] = "push_write" /\ pc'[p] = "idle" /\ loc[p] = Null)
                => /\ ret'[p].error = "none"
                   /\ sessRec' # Null
                   /\ sessRec'.totalChunks = arg[p].total
                   /\ sessRec'.created = now
                   /\ sessRec'.delivered = <<>>
                   /\ DOMAIN sessRec'.chunks = {arg[p].idx}
                   /\ ~sessRec'.completed]_vars

\* C23 happens: the client's receive has returned expired, and its first
\* push, of a transfer of two chunks, has found no session for the key
C23_Witness ==
    /\ pc[1] = "push_write"
    /\ loc[1] = Null
    /\ sessRec = Null
    /\ arg[1].total = 2
    /\ ret[1] = PlainRet("expired")

----------------------------------------------------------------------------
(* The receiver comes first (SpecUni) *)

\* the live session of the invite code is a placeholder
IsPlaceholder(s) ==
    IF s = Null THEN FALSE ELSE s.totalChunks = NoTotal /\ s.waitingForSender

\* the client's call of this step is a nextChunk, a well-formed pushChunk
UniReceives == ops' = ops + 1 /\ ret'[1].op = "next"

UniPushes ==
    /\ ops' = ops + 1
    /\ ret'[1].op = "push"
    /\ ret'[1].error # "invalid_chunk"

\* C24: in the unidirectional relay a receive that finds no session returns
\* waiting and stores a placeholder (totalChunks null, waitingForSender);
\* the push that finds the placeholder is accepted, sets totalChunks to its
\* own and stores its chunk, and a receive made next returns that chunk;
\* a receive that finds the placeholder returns waiting, never
\* chunkAvailable or done, and leaves it a placeholder.
C24_PlaceholderThenPush ==
    [][/\ (UniReceives /\ UniPurged(uniRec, now) = Null)
             => /\ ret'[1] = PlainRet("waiting")
                /\ IsPlaceholder(uniRec')
                /\ uniRec'.chunks = <<>> /\ uniRec'.delivered = <<>>
       /\ (UniPushes /\ IsPlaceholder(UniPurged(uniRec, now)))
             => /\ ret'[1].error = "none"
                /\ uniRec'.totalChunks = ret'[1].total
                /\ ~IsPlaceholder(uniRec')
                /\ UniNextResult(uniRec', now').ret =
                      NextRet("chunkAvailable", ret'[1].idx, ret'[1].total, ret'[1].data)
       /\ (UniReceives /\ IsPlaceholder(UniPurged(uniRec, now)))
             => /\ ret'[1] = PlainRet("waiting")
                /\ IsPlaceholder(uniRec')]_vars

\* C24 happens: the receiver polled before anything was pushed and again
\* later, the sender then pushed chunk 1 of 2, and the receiver was handed
\* that chunk
C24_Witness ==
    /\ Len(trace.log) = 4
    /\ trace.log[1] = PlainRet("waiting")
    /\ trace.log[2] = PlainRet("waiting")
    /\ trace.log[3] = PushRet([idx |-> 1, total |-> 2, data |-> "A"], "none")
    /\ trace.log[4] = NextRet("chunkAvailable", 1, 2, "A")
    /\ uniRec # Null
    /\ uniRec.created = 0
    /\ uniRec.lastTouched > 0

----------------------------------------------------------------------------
(* Sessions of different pairs (SpecPairs) *)

\* C25 as stated: a call made for one (inviteCode, passwordHash) pair leaves
\* the stored session of every other pair as it was: distinct pairs have
\* distinct keys, hence distinct records.
C25_PairsIsolated ==
    [][\A ic \in Pins, ph \in Hashes :
          (/\ ops' = ops + 1
           /\ <<ret'[1].pin, ret'[1].passwordHash>> # <<ic, ph>>)
          => Get(blobs', SessionKey(ic, ph)) = Get(blobs, SessionKey(ic, ph))]_vars

----------------------------------------------------------------------------
(* Not found or expired (SpecSessionSeq) *)

\* the client's request of this step is one to the offer or answer endpoint
\* of the session, answered at this very step
AnsweredAtOnce ==
    /\ pc[1] = "idle"
    /\ pc'[1] = "idle"
    /\ ops' = ops + 1
    /\ ret'[1].op \in {"postOffer", "postAnswer", "getOffer", "getAnswer"}

\* C26 as stated: a request for a session id that has no stored record is
\* answered 404 session_not_found, and a request that finds the record of
\* the session stored with its time to live run out is answered 410
\* session_expired.
C26_GoneOrExpired ==
    [][/\ (AnsweredAtOnce /\ kvSess = Null)
             => ret'[1].status = "session_not_found"
       /\ (/\ AnsweredAtOnce
           /\ kvSess # Null
           /\ kvSess' # kvSess
           /\ IF kvSess = Null THEN FALSE ELSE kvSess.exp <= now)
             => ret'[1].status = "session_expired"]_vars

----------------------------------------------------------------------------
(* Issuing a PIN (SpecMem) *)

\* C27 as stated: the PIN a session creation issues is not in the PIN index
\* when it is issued, and the creation leaves every entry the index holds
\* naming the session it named.
C27_PinNotReissued ==
    [][(ops' = ops + 1 /\ ret'[1].op = "create")
        => /\ PinHash(ret'[1].pin) \notin DOMAIN memSt.byPinHash
           /\ \A h \in DOMAIN memSt.byPinHash :
                 /\ h \in DOMAIN memSt'.byPinHash
                 /\ memSt'.byPinHash[h] = memSt.byPinHash[h]]_vars

----------------------------------------------------------------------------
(* Expiry on read (SpecAcked) *)

\* the record is stored and its expiry lies in the past
PastExpiry(rec) == rec # Null /\ rec.expires < now

\* the step in which a call of the client reads the session record
ReadsSessionPush == pc[1] = "idle" /\ ops' = ops + 1
                    /\ (pc'[1] = "push_write"
                        \/ (pc'[1] = "idle" /\ ret'[1].op = "push"
                            /\ ret'[1].error # "invalid_chunk"))
ReadsSessionAck == pc[1] = "ack_read" /\ pc'[1] # "ack_read"

\* the step in which nextChunk reads the ack record
ReadsAckRecord == /\ pc[1] = "next_chk" /\ pc'[1] # "next_chk"
                  /\ ~IsStale(loc[1], now) /\ loc[1].completed

\* C28: a read of a record whose expiry is in the past removes the record
\* and the call goes on as for an absent record: pushChunk starts from no
\* session, nextChunk returns expired, setAcknowledged updates no session,
\* and nextChunk reading an expired ack record answers done and destroys
\* nothing; a record a call keeps from its read had not expired when read.
C28_ExpiredReadsAbsent ==
    [][/\ (PastExpiry(sessRec) /\ ReadsSessionPush)
            => (sessRec' = Null /\ pc'[1] = "push_write" /\ loc'[1] = Null)
       /\ (PastExpiry(sessRec) /\ StartsReceive(1))
            => (sessRec' = Null /\ pc'[1] = "idle" /\ ret'[1] = PlainRet("expired"))
       /\ (PastExpiry(sessRec) /\ ReadsSessionAck)
            => (sessRec' = Null /\ pc'[1] = "idle")
       /\ (PastExpiry(ackRec) /\ ReadsAckRecord)
            => (ackRec' = Null /\ sessRec' = sessRec /\ ret'[1] = PlainRet("done"))
       /\ (loc'[1] # loc[1] /\ loc'[1] # Null) => loc'[1].expires >= now]_vars

\* C28 witness: the expired ack record of a transfer is still stored, no
\* sweep having run, while the session record is gone and the receive that
\* read it returned expired.
C28_Witness ==
    /\ PastExpiry(ackRec)
    /\ sessRec = Null
    /\ pc[1] = "idle" /\ ret[1] = PlainRet("expired")

----------------------------------------------------------------------------
(* Records past their expiry (SpecAckedFair) *)

\* C29 as stated: a relay session record or ack record whose expiry has
\* passed is eventually destroyed (or written anew by a call in flight), so
\* that no record stays in the store past its final expiry.
C29_NoRecordOutlives ==
    /\ PastExpiry(sessRec) ~> ~PastExpiry(sessRec)
    /\ PastExpiry(ackRec) ~> ~PastExpiry(ackRec)

----------------------------------------------------------------------------
(* Refreshing the session on every write (SpecAcked) *)

\* C30 as stated: every step that writes the relay session record (an
\* accepted push, a delivery, the completion transition, an acknowledgement)
\* leaves it with lastTouched at the current time and its expiry one session
\* lifetime later.
C30_WritesRefresh ==
    [][(sessRec' # sessRec /\ sessRec' # Null)
        => /\ sessRec'.lastTouched = now
           /\ sessRec'.expires = now + CHUNK_TTL_MS]_vars

----------------------------------------------------------------------------
(* The read-back of pushChunk (SpecPushRace) *)

\* C31 as stated: pushChunk returns success only from a read-back that
\* follows its own write: the step in which a push returns success writes
\* nothing and has the stored session hold the data of the call at its index.
C31_SuccessAfterReadBack ==
    [][\A p \in Procs :
          (pc[p] # "idle" /\ pc'[p] = "idle"
           /\ ret'[p].op = "push" /\ ret'[p].error = "none")
          => /\ sessRec' = sessRec
             /\ sessRec # Null
             /\ ret'[p].idx \in DOMAIN sessRec.chunks
             /\ sessRec.chunks[ret'[p].idx] = ret'[p].data]_vars

----------------------------------------------------------------------------
(* Stopping half way (SpecCrash) *)

\* a stored envelope session whose answer has been delivered has at most the
\* one second of the forced expiry left
DeliveredIsExpiring ==
    (kvSess # Null /\ kvSess.val.answerDelivered) => kvSess.exp - now <= 1000

\* a live PIN entry refers to a stored session record
PinHasSession == MemGet(kvPin, now) # Null => kvSess # Null

\* the ack record and the acknowledged flag of the session say the same
AckAgrees ==
    (sessRec # Null /\ ackRec # Null) => ackRec.acknowledged = sessRec.acknowledged

\* C32 as stated: when a call has stopped between two of its storage
\* operations, the store is consistent: a delivered answer means a session
\* about to expire, the PIN entry refers to a stored session, and the ack
\* record agrees with the acknowledged flag of the session.
C32_CrashConsistent ==
    (pc[1] = "idle" /\ ret[1].op = "crash")
    => (DeliveredIsExpiring /\ PinHasSession /\ AckAgrees)

----------------------------------------------------------------------------
(* The lifetime of a chunk session (SpecTtl) *)

\* 30 s and half a second per chunk, at most 180 s
CappedTtl(total) ==
    IF USER_INPUT_TIME_MS + total * CHUNK_TTL_PER_CHUNK_MS > MAX_CHUNK_TTL_MS
    THEN MAX_CHUNK_TTL_MS
    ELSE USER_INPUT_TIME_MS + total * CHUNK_TTL_PER_CHUNK_MS

\* C33 as stated: getChunkTTL is 30 s plus half a second per chunk, capped
\* at 180 s, for every totalChunks in 1..2048, and 30 s when totalChunks is
\* unknown.
C33_TtlCapped ==
    ret[1].op = "ttl"
    => ret[1].ttl = IF ret[1].total = NoTotal THEN USER_INPUT_TIME_MS
                    ELSE CappedTtl(ret[1].total)

----------------------------------------------------------------------------
(* A sender and a receiver side by side (SpecDuplex) *)

\* the results recorded so far that hand out chunk i
HandedOut(i) ==
    {k \in 1..Len(trace.log) :
        /\ trace.log[k].op = "next"
        /\ trace.log[k].status = "chunkAvailable"
        /\ trace.log[k].idx = i}

\* the indices whose push has returned success
PushedOk ==
    {trace.log[k].idx : k \in {j \in 1..Len(trace.log) :
        trace.log[j].op = "push" /\ trace.log[j].error = "none"}}

\* C34 as stated: with a sender and a receiver running side by side on a
\* session that does not expire, no chunk is handed out twice, and once both
\* are at rest every chunk whose push returned success has been handed out
\* once or is still waiting in the stored session.
C34_ExactlyOnce ==
    /\ \A i \in 0..(MaxTotal - 1) : Cardinality(HandedOut(i)) <= 1
    /\ (\A p \in Procs : pc[p] = "idle")
       => \A i \in PushedOk :
             \/ Cardinality(HandedOut(i)) = 1
             \/ (sessRec # Null /\ Pending(sessRec, i))

----------------------------------------------------------------------------
(* Signals queued and polled side by side (SpecSignalRec) *)

\* the polls recorded so far
PollsLogged == {k \in 1..Len(trace.log) : trace.log[k].op = "poll"}

\* the payloads the polls have handed out
HandedSignals ==
    UNION {{trace.log[k].messages[i].payload : i \in 1..Len(trace.log[k].messages)} :
              k \in PollsLogged}

RECURSIVE CountHanded(_)
CountHanded(k) ==
    IF k = 0 THEN 0
    ELSE CountHanded(k - 1)
         + (IF trace.log[k].op = "poll" THEN Len(trace.log[k].messages) ELSE 0)

\* the queueSignal calls that returned queued
QueuedOk ==
    {k \in 1..Len(trace.log) : trace.log[k].op = "queue" /\ trace.log[k].error = "none"}

\* the payloads waiting in the mailbox
WaitingSignals ==
    IF sigRec = Null THEN {}
    ELSE {sigRec.messages[i].payload : i \in 1..Len(sigRec.messages)}

\* C35 as stated: with queueSignal running beside pollSignals or beside
\* another queueSignal, and no signal expiring, no signal is handed out
\* twice, and once all calls have returned every signal whose queueSignal
\* returned queued has been handed out or is waiting in the mailbox.
C35_SignalExactlyOnce ==
    /\ CountHanded(Len(trace.log)) = Cardinality(HandedSignals)
    /\ (\A p \in Procs : pc[p] = "idle")
       => Cardinality(HandedSignals \cup WaitingSignals) = Cardinality(QueuedOk)

----------------------------------------------------------------------------
(* An acknowledgment older than the transfer (SpecRelaySeq) *)

\* the time at which setAcknowledged wrote the ack record
AckWrittenAt == ackRec.expires - CHUNK_TTL_MS

\* C36 as stated: while a session is stored, getAck answers true only if
\* setAck was called after that session was created: the session carries
\* the flag setAck left in it, or the ack record is no older than the
\* session.
C36_AckOfThisSession ==
    (pc[1] = "idle" /\ ReadStorage(sessRec, now) # Null /\ GetAckNow)
    => \/ SessAcked(sessRec)
       \/ (ackRec # Null /\ AckWrittenAt >= sessRec.created)

----------------------------------------------------------------------------
(* A save that comes late (SpecLateSave) *)

\* the stored session has had its lifetime cut after its answer was delivered
ForceExpired ==
    /\ kvSess # Null
    /\ kvSess.val.answerDelivered
    /\ kvSess.exp < SESS_TTL_SEC * 1000

\* C37 as stated: the kvSet of a saveSession whose handler read the session
\* earlier leaves a deleted session absent and gives a session that was
\* force-expired after the delivery of its answer no later expiry than it
\* had.
C37_NoLateSave ==
    [][\A p \in Procs :
          (pc[p] = "save_set" /\ pc'[p] # "save_set")
          => /\ kvSess = Null => kvSess' = Null
             /\ ForceExpired => (kvSess' # Null /\ kvSess'.exp <= kvSess.exp)]_vars

----------------------------------------------------------------------------
(* Done means everything was handed out (SpecMixed) *)

\* C38: a nextChunk that returns done has read a session every index of
\* which, from 0 to totalChunks - 1, was handed out by an earlier
\* chunkAvailable result, however the pushes and receives of the two clients
\* overlap.
C38_DoneAfterAll ==
    [][\A p \in Procs :
          (pc[p] = "next_chk" /\ pc'[p] = "idle" /\ ret'[p] = PlainRet("done"))
          => \A i \in 0..(loc[p].totalChunks - 1) : HandedOut(i) # {}]_vars

\* C38 witness: both chunks of a transfer of two have been handed out and a
\* later nextChunk has returned done.
C38_Witness ==
    /\ \E k \in 1..Len(trace.log) : trace.log[k] = PlainRet("done")
    /\ sessRec # Null /\ sessRec.totalChunks = 2 /\ sessRec.completed
    /\ HandedOut(0) # {} /\ HandedOut(1) # {}


----------------------------------------------------------------------------
(* Two peers registering one invite code at once (SpecPeer) *)

\* C39: a registerPeer call that comes to its end while the invite code is
\* held by a registration of another peer, written since the call read the
\* code as free and still within its 30 s, returns invite_code_in_use and
\* leaves that registration as it is, so that of two overlapping calls of
\* different peers at most one returns registered.
C39_OneRegistrant ==
    [][\A p \in Procs :
          (/\ pc[p] = "reg_write"
           /\ pc'[p] = "idle"
           /\ peerRec # Null
           /\ peerRec.expires > now
           /\ peerRec.peerId # arg[p].peerId)
          => /\ ret'[p].error = "invite_code_in_use"
             /\ peerRec' = peerRec]_vars


----------------------------------------------------------------------------
(* A completed session stays completed (SpecMixed) *)

\* C40: while the stored relay session is completed, every step leaves it
\* completed with no chunks or removes it, and a well-formed pushChunk that
\* reads it unexpired is not let through to the write and returns
\* duplicate_chunk or totalChunks_mismatch.
C40_CompletedStays ==
    [][(sessRec # Null /\ sessRec.completed) =>
          /\ IF sessRec' = Null THEN TRUE
             ELSE sessRec'.completed /\ DOMAIN sessRec'.chunks = {}
          /\ \A p \in Procs :
                (pc[p] = "idle" /\ ReadStorage(sessRec, now) # Null)
                => /\ pc'[p] # "push_write"
                   /\ (/\ pc'[p] = "idle"
                       /\ ret'[p] # ret[p]
                       /\ ret'[p].op = "push"
                       /\ ret'[p].error # "invalid_chunk")
                      => ret'[p].error \in {"duplicate_chunk", "totalChunks_mismatch"}]_vars

====
